---- MODULE Spec2Model ----
(***************************************************************************)
(* Consumables ordering application: the request aggregation engine and   *)
(* the export (components/AdminDashboard.tsx), the request builder, the    *)
(* log store, the catalog import and the administrator lock (App.tsx,      *)
(* components/RequestForm.tsx).                                            *)
(*                                                                         *)
(* The repository holds two builds of App: the Supabase build (App.tsx,    *)
(* asynchronous handlers over remote tables) and the local-state build     *)
(* (unnamed/part_005, synchronous handlers over React state only).  The    *)
(* variable `build` selects which handlers run in a behaviour.             *)
(***************************************************************************)
EXTENDS Integers, Sequences, FiniteSets, TLC

VARIABLES
    \* ---- aggregation engine, driven on enumerated inputs (SpecAgg)
    aggLogs,        \* the logs handed to aggregateLogs
    aggItems,       \* the catalog handed to aggregateLogs
    aggRows,        \* the rows aggregateLogs returned
    aggPhase,       \* "input" while the log list is built, "done" after the call
    \* ---- App component state (useState)
    build,          \* "supabase" (App.tsx) or "local" (unnamed/part_005)
    masterItems,    \* catalog in memory, a sequence of items
    requestLogs,    \* logs in memory, a sequence of logs
    error,          \* error message, Null when none
    isLoading,      \* fetchData in progress (supabase build)
    userMode,       \* "general" or "admin"
    \* ---- RequestForm component state (lost when the form unmounts)
    cart,           \* sequence of [item, quantity]
    line,           \* selected line, "" when none
    equipmentCode,  \* selected equipment code, "" when none
    desiredDate,    \* desired delivery date, "" when none
    formEvent,      \* history: what the form's last handler did
    \* ---- remote tables and requests in flight (supabase build)
    dbItems,        \* master_items: a set of items, primary key id
    dbLogs,         \* request_logs: a set of logs, primary key id
    ops,            \* handlers suspended at an await, a sequence of records
    \* ---- environment
    clock,          \* the millisecond clock read by Date.now() / new Date()
    uuidCount,      \* number of ids crypto.randomUUID() has handed out
    failures,       \* number of requests the tables have failed so far
    \* ---- AdminDashboard component state (useState) and its history
    currentWeekDate,   \* the date the weekly view is anchored on
    currentMonthDate,  \* the date the monthly view is anchored on
    mountDate,         \* history: new Date() when the dashboard mounted
    weekOffset,        \* history: net number of weeks navigated
    monthOffset,       \* history: net number of months navigated
    \* ---- App state shown by the admin panels
    isUpdateSuccessModalOpen,  \* the "update complete" dialog is on screen
    lines,             \* production lines in memory, a sequence of names
    equipmentCodes,    \* equipment codes in memory, a sequence of codes
    \* ---- remote tables of the reference lists (supabase build)
    dbLines,           \* lines: a set of names, primary key name
    dbCodes,           \* equipment_codes: a set of codes, primary key code
    \* ---- the CSV parser, driven on enumerated files (SpecCsvSplit, SpecCsvRows)
    csvFile,           \* the data rows of the file, each a sequence of fields
    csvTrace,          \* per row: the columns and the items the parser made
    parsedItems,       \* the items the parser collected
    csvPhase,          \* "idle", "input" while the file is written, "parsed"
    \* ---- the administrator lock (App state and localStorage)
    isAdminAuthenticated,  \* the password was accepted in this session
    isPasswordModalOpen,   \* the password dialog is on screen
    adminPassword,         \* the password held in state
    storedPassword,        \* localStorage item 'adminPassword'
    authEvent,             \* history: what the last lock handler was given
    \* ---- master data update state
    lastMasterUpdate,      \* <<>> for null, <<t>> for the Date read at t
    \* ---- the CSV export, driven on enumerated rows (SpecExport)
    dataToDownload,        \* the aggregation rows handed to handleDownload
    csvContent,            \* the text handleDownload wrote, <<>> when none
    exportPhase,           \* "idle", "clicked" after link.click()
    \* ---- a quantity field of the cart and of the log table (SpecQuantity)
    cartQuantity,          \* quantity of the cart entry, a number record
    editingQty,            \* the dashboard's editingQuantity
    logQuantity,           \* quantities of the stored logs, newest first
    qtyPhase,              \* the screen shown and the log being edited
    \* ---- bound of a run
    inFlightLimit          \* no new request while this many are suspended

aggVars == <<aggLogs, aggItems, aggRows, aggPhase>>
appVars == <<build, masterItems, requestLogs, error, isLoading, userMode>>
formVars == <<cart, line, equipmentCode, desiredDate, formEvent>>
remoteVars == <<dbItems, dbLogs, ops>>
envVars == <<clock, uuidCount, failures>>
dashVars == <<currentWeekDate, currentMonthDate, mountDate, weekOffset,
              monthOffset>>
listVars == <<lines, equipmentCodes>>
listTables == <<dbLines, dbCodes>>
csvVars == <<csvFile, csvTrace, parsedItems, csvPhase>>
authVars == <<isAdminAuthenticated, isPasswordModalOpen, adminPassword,
              storedPassword, authEvent>>
exportVars == <<dataToDownload, csvContent, exportPhase>>
qtyVars == <<cartQuantity, editingQty, logQuantity, qtyPhase>>
sideVars == <<exportVars, qtyVars, inFlightLimit>>
adminVars ==
    <<dashVars, isUpdateSuccessModalOpen, listVars, listTables, csvVars,
      authVars, lastMasterUpdate, sideVars>>

vars == <<aggLogs, aggItems, aggRows, aggPhase,
          build, masterItems, requestLogs, error, isLoading, userMode,
          cart, line, equipmentCode, desiredDate, formEvent,
          dbItems, dbLogs, ops, clock, uuidCount, failures,
          currentWeekDate, currentMonthDate, mountDate, weekOffset,
          monthOffset, isUpdateSuccessModalOpen, lines, equipmentCodes,
          dbLines, dbCodes, csvFile, csvTrace, parsedItems, csvPhase,
          isAdminAuthenticated, isPasswordModalOpen, adminPassword,
          storedPassword, authEvent, lastMasterUpdate,
          dataToDownload, csvContent, exportPhase,
          cartQuantity, editingQty, logQuantity, qtyPhase,
          inFlightLimit>>

\* null / undefined / '' of an optional field: all three are falsy in the code
Null == "NULL"

(***************************************************************************)
(* Generic sequence helpers                                                *)
(***************************************************************************)
Range(s) == {s[i] : i \in 1..Len(s)}

RECURSIVE SumSeq(_)
SumSeq(s) == IF s = <<>> THEN 0 ELSE Head(s) + SumSeq(Tail(s))

\* Array.prototype.find over the set of matching indexes: the first match,
\* 0 when there is none
FirstIndex(matches) ==
    IF matches = {} THEN 0
    ELSE CHOOSE i \in matches : \A j \in matches : i <= j

(***************************************************************************)
(* String.prototype.localeCompare on the strings the model uses.           *)
(* Item names: the two spellings "Pad-NFC" and "Pad-NFD" stand for one     *)
(* name in composed and decomposed Unicode form: they are different        *)
(* strings (=== is false) that collate as equal.  Dates are YYYY-MM-DD     *)
(* strings, which collate in calendar order.  Line names and equipment     *)
(* codes that differ only in letter case come in either order.             *)
(***************************************************************************)
CollationRank(s) ==
    CASE s = "Bolt"       -> 1
      [] s = "Pad-NFC"    -> 2
      [] s = "Pad-NFD"    -> 2
      [] s = "Washer"     -> 3
      [] s = "2024-01-01" -> 11
      [] s = "2024-01-02" -> 12
      [] s = "EQ-1"       -> 21
      [] s = "eq-1"       -> 21
      [] s = "EQ-2"       -> 22
      [] s = "Lathe"      -> 23
      [] s = "Press1"     -> 24
      [] s = "press1"     -> 24
      [] OTHER            -> 0

LocaleCompare(a, b) ==
    IF CollationRank(a) < CollationRank(b) THEN -1
    ELSE IF CollationRank(a) > CollationRank(b) THEN 1
    ELSE 0

(***************************************************************************)
(* JavaScript Date in local time (utils/dateUtils.ts, AdminDashboard.tsx). *)
(* A Date is [day, ms]: the local calendar day, counted from Sunday        *)
(* 2023-01-01 = day 0, and the milliseconds since that day's midnight.     *)
(* The time zone has no daylight-saving switch: every local day has its    *)
(* midnight and lasts 24 hours.                                            *)
(***************************************************************************)
EpochYear == 2023
MsPerDay == 86400000
\* 23:59:59.999 as milliseconds since midnight
EndOfDay == MsPerDay - 1

IsLeapYear(y) == y % 4 = 0 /\ (y % 100 # 0 \/ y % 400 = 0)

\* length of the month mi months after January of EpochYear
DaysInMonth(mi) ==
    CASE mi % 12 = 1              -> IF IsLeapYear(EpochYear + mi \div 12)
                                     THEN 29 ELSE 28
      [] mi % 12 \in {3, 5, 8, 10} -> 30
      [] OTHER                    -> 31

RECURSIVE MonthStart(_)
MonthStart(mi) ==
    IF mi = 0 THEN 0 ELSE MonthStart(mi - 1) + DaysInMonth(mi - 1)

\* the calendar the model carries: January 2023 .. December 2026
MonthStarts == [mi \in 0..48 |-> MonthStart(mi)]

\* the month each day of the calendar lies in
MonthOfDay ==
    [n \in 0 .. MonthStarts[48] - 1 |->
        CHOOSE mi \in 0..47 : MonthStarts[mi] <= n /\ n < MonthStarts[mi + 1]]

MonthIndex(date) == MonthOfDay[date.day]

GetFullYear(date) == EpochYear + MonthIndex(date) \div 12
GetMonth(date) == MonthIndex(date) % 12
GetDate(date) == date.day - MonthStarts[MonthIndex(date)] + 1
\* 0 = Sunday .. 6 = Saturday
GetDay(date) == date.day % 7
\* getTime(): the milliseconds since the epoch exceed the model checker's
\* integers, so an instant is the pair <<days, milliseconds of the day>>
GetTime(date) == <<date.day, date.ms>>
\* t1 <= t2 on instants
TimeLe(t1, t2) == t1[1] < t2[1] \/ (t1[1] = t2[1] /\ t1[2] <= t2[2])

\* new Date(year, month, day, h, m, s, ms): month and day outside their
\* range carry into the neighbouring months
NewDate(year, month, dayOfMonth, ms) ==
    [day |-> MonthStarts[(year - EpochYear) * 12 + month] + dayOfMonth - 1,
     ms  |-> ms]

\* new Date(timestamp)
FromTime(t) == [day |-> t[1], ms |-> t[2]]

SetHours(date, ms) == [date EXCEPT !.ms = ms]
SetDate(date, dayOfMonth) ==
    NewDate(GetFullYear(date), GetMonth(date), dayOfMonth, date.ms)
SetMonth(date, month, dayOfMonth) ==
    NewDate(GetFullYear(date), month, dayOfMonth, date.ms)

(***************************************************************************)
(* utils/dateUtils.ts                                                      *)
(***************************************************************************)
DiffToMondayNoSunday(dayOfWeek) == 1 - dayOfWeek

DiffToMonday(dayOfWeek) == IF dayOfWeek = 0 THEN -6 ELSE 1 - dayOfWeek

DaysBeforeFirstMondaySundayStart(firstDayOfMonth) == firstDayOfMonth % 7

DaysBeforeFirstMonday(firstDayOfMonth) == (firstDayOfMonth + 6) % 7

getWeekInfo(date) ==
    LET d == SetHours(date, 0)
        dayOfWeek == GetDay(d)
        diffToMonday == DiffToMonday(dayOfWeek)
        startOfWeek == SetDate(d, GetDate(d) + diffToMonday)
        endOfWeek ==
            SetHours(SetDate(startOfWeek, GetDate(startOfWeek) + 6), EndOfDay)
        startOfMonth ==
            NewDate(GetFullYear(startOfWeek), GetMonth(startOfWeek), 1, 0)
        firstDayOfMonth == GetDay(startOfMonth)
        daysBeforeFirstMonday == DaysBeforeFirstMonday(firstDayOfMonth)
        weekNumber ==
            (GetDate(startOfWeek) + daysBeforeFirstMonday - 1) \div 7 + 1
    IN  [startOfWeek |-> startOfWeek,
         endOfWeek   |-> endOfWeek,
         month       |-> GetMonth(startOfWeek) + 1,
         weekNumber  |-> weekNumber]

\* String(n).padStart(2, '0')
PadStart2(n) == IF n < 10 THEN "0" \o ToString(n) ELSE ToString(n)

formatDate(date) ==
    PadStart2(GetMonth(date) + 1) \o "." \o PadStart2(GetDate(date))

\* the label, as the four values the template string interpolates
getWeekRangeString(date) ==
    LET info == getWeekInfo(date)
    IN  [month      |-> ToString(info.month),
         weekNumber |-> ToString(info.weekNumber),
         from       |-> formatDate(info.startOfWeek),
         to         |-> formatDate(info.endOfWeek)]

(***************************************************************************)
(* AdminDashboard: the weekly and the monthly window                       *)
(***************************************************************************)
WeekStepSix(d, weeks) == SetDate(d, GetDate(d) + weeks * 6)

WeekStep(d, weeks) == SetDate(d, GetDate(d) + weeks * 7)

\* setMonth(month) without a day keeps the day of the month, which carries
\* into the next month when the target month is shorter
MonthStepKeepDay(d, months) == SetMonth(d, GetMonth(d) + months, GetDate(d))

MonthStep(d, months) == SetMonth(d, GetMonth(d) + months, 1)

weeklyLogs(logs, date) ==
    LET info == getWeekInfo(date)
    IN  SelectSeq(logs, LAMBDA log :
            LET logDate == FromTime(log.timestamp)
            IN  /\ TimeLe(GetTime(info.startOfWeek), GetTime(logDate))
                /\ TimeLe(GetTime(logDate), GetTime(info.endOfWeek)))

StartOfMonth(date) == NewDate(GetFullYear(date), GetMonth(date), 1, 0)
EndOfMonth(date) == NewDate(GetFullYear(date), GetMonth(date) + 1, 0, EndOfDay)

monthlyLogs(logs, date) ==
    SelectSeq(logs, LAMBDA log :
        LET logDate == FromTime(log.timestamp)
        IN  /\ TimeLe(GetTime(StartOfMonth(date)), GetTime(logDate))
            /\ TimeLe(GetTime(logDate), GetTime(EndOfMonth(date))))

\* the dashboard is not on screen
DashIdle ==
    /\ currentWeekDate = [day |-> 0, ms |-> 0]
    /\ currentMonthDate = [day |-> 0, ms |-> 0]
    /\ mountDate = [day |-> 0, ms |-> 0]
    /\ weekOffset = 0
    /\ monthOffset = 0

\* the reference lists of a build that is not running
ListsIdle ==
    /\ lines = <<>> /\ equipmentCodes = <<>>
    /\ dbLines = {} /\ dbCodes = {}

\* no file is being parsed
CsvIdle ==
    /\ csvFile = <<>> /\ csvTrace = <<>> /\ parsedItems = <<>>
    /\ csvPhase = "idle"

\* a history record of the lock: the handler that ran last, the password
\* it was given and whether it accepted it
AuthEvent(handler, given, accepted) ==
    [handler |-> handler, given |-> given, accepted |-> accepted]

\* useState(() => localStorage.getItem('adminPassword') || default): the
\* default of each build (App.tsx 28, part_005 27)
DefaultPassword(b) == IF b = "supabase" THEN "0000" ELSE "YSP2025"

\* null for a Date
NoDate == <<>>

\* the lock of an App that holds the given password: authenticated exactly
\* when it shows the admin screens
LockWith(password) ==
    /\ isAdminAuthenticated = (userMode = "admin")
    /\ isPasswordModalOpen = FALSE
    /\ adminPassword = password
    /\ storedPassword = password
    /\ authEvent = AuthEvent("none", "", FALSE)

\* the lock in a browser that stored no password before (after the mount
\* effect, App.tsx 88-91)
LockAtMount == LockWith(DefaultPassword(build))

\* no new request while this many handlers are suspended
MaxInFlight == 1

\* a number: finite with its value, Infinity, or NaN
Finite(n) == [kind |-> "finite", value |-> n]
Infinite == [kind |-> "Infinity", value |-> 0]
NaN == [kind |-> "NaN", value |-> 0]

\* no export and no quantity field is being driven
ExportIdle ==
    dataToDownload = <<>> /\ csvContent = <<>> /\ exportPhase = "idle"
QtyPhase(screen, editingLogId) ==
    [screen |-> screen, editingLogId |-> editingLogId]
QtyIdle ==
    /\ cartQuantity = Finite(1) /\ editingQty = Finite(0)
    /\ logQuantity = <<>>
    /\ qtyPhase = QtyPhase("idle", 0)
SideIdle == ExportIdle /\ QtyIdle /\ inFlightLimit = MaxInFlight

AdminIdle ==
    /\ DashIdle /\ isUpdateSuccessModalOpen = FALSE /\ ListsIdle /\ CsvIdle
    /\ LockAtMount /\ lastMasterUpdate = NoDate /\ SideIdle

(***************************************************************************)
(* aggregateLogs (components/AdminDashboard.tsx 44-97)                     *)
(***************************************************************************)
GroupKeyItemOnly(log) == log.item_id \o "_" \o "none"

\* `${log.item_id}_${log.desired_delivery_date || 'none'}`
GroupKey(log) ==
    log.item_id \o "_" \o
        (IF log.desired_delivery_date = Null THEN "none" ELSE log.desired_delivery_date)

\* masterItems.find(i => i.id === itemId): the first match.  ItemIndex is 0
\* where find returns undefined; FindItem is read only where it is not.
ItemIndex(items, itemId) ==
    FirstIndex({i \in 1..Len(items) : items[i].id = itemId})

HasItem(items, itemId) == ItemIndex(items, itemId) # 0

FindItem(items, itemId) == items[ItemIndex(items, itemId)]

NewEntry(item, log) ==
    [item |-> item,
     desired_delivery_date |-> log.desired_delivery_date,
     totalQuantity |-> 0,
     totalCost |-> 0,
     requestsByLine |-> <<>>,
     requestsByEquipment |-> <<>>]

\* lines 68-73: find the line's entry and add to it, else push a new one
AddByLine(requestsByLine, log) ==
    LET idx == FirstIndex({i \in 1..Len(requestsByLine) : requestsByLine[i].line = log.line})
    IN  IF idx # 0
        THEN [requestsByLine EXCEPT ![idx].quantity = @ + log.quantity]
        ELSE Append(requestsByLine, [line |-> log.line, quantity |-> log.quantity])

AddByEquipmentAlways(requestsByEquipment, log) ==
    LET idx == FirstIndex({i \in 1..Len(requestsByEquipment) :
                              requestsByEquipment[i].code = log.equipment_code})
    IN  IF idx # 0
        THEN [requestsByEquipment EXCEPT ![idx].quantity = @ + log.quantity]
        ELSE Append(requestsByEquipment,
                    [code |-> log.equipment_code, quantity |-> log.quantity])

\* lines 75-82: only logs with an equipment code reach the equipment breakdown
AddByEquipment(requestsByEquipment, log) ==
    IF log.equipment_code # Null
    THEN AddByEquipmentAlways(requestsByEquipment, log)
    ELSE requestsByEquipment

AccumulateCatalogPrice(entry, log) ==
    [entry EXCEPT
        !.totalQuantity = @ + log.quantity,
        !.totalCost = @ + entry.item.price * log.quantity,
        !.requestsByLine = AddByLine(@, log),
        !.requestsByEquipment = AddByEquipment(@, log)]

\* lines 65-82: what one log adds to its group's entry
Accumulate(entry, log) ==
    [entry EXCEPT
        !.totalQuantity = @ + log.quantity,
        !.totalCost = @ + log.total_cost,
        !.requestsByLine = AddByLine(@, log),
        !.requestsByEquipment = AddByEquipment(@, log)]

\* The Map<string, AggregatedItem> is a sequence of [key, value] pairs in
\* insertion order (the order Map.prototype.values() iterates in).
MapIndex(map, key) == FirstIndex({i \in 1..Len(map) : map[i].key = key})

AggregateStepKeepOrphans(map, log, items) ==
    LET key == GroupKey(log)
        idx == MapIndex(map, key)
        item == IF HasItem(items, log.item_id)
                THEN FindItem(items, log.item_id)
                ELSE [id |-> log.item_id, supplier |-> "", name |-> log.item_name,
                      specification |-> "", unit |-> "", price |-> 0]
    IN  IF idx # 0
        THEN [map EXCEPT ![idx].value = Accumulate(@, log)]
        ELSE Append(map, [key |-> key, value |-> Accumulate(NewEntry(item, log), log)])

\* lines 46-83: the body of logs.forEach
AggregateStep(map, log, items) ==
    LET key == GroupKey(log)
        idx == MapIndex(map, key)
    IN  IF idx # 0
        THEN [map EXCEPT ![idx].value = Accumulate(@, log)]
        ELSE IF HasItem(items, log.item_id)
             THEN Append(map, [key |-> key,
                               value |-> Accumulate(
                                   NewEntry(FindItem(items, log.item_id), log), log)])
             ELSE map    \* return: the log is skipped

RECURSIVE AggregateMap(_, _, _)
AggregateMap(map, logs, items) ==
    IF logs = <<>> THEN map
    ELSE AggregateMap(AggregateStep(map, Head(logs), items), Tail(logs), items)

RowCompareUndatedFirst(a, b) ==
    LET nameCompare == LocaleCompare(a.item.name, b.item.name)
    IN  IF nameCompare # 0 THEN nameCompare
        ELSE IF a.desired_delivery_date # Null /\ b.desired_delivery_date # Null
             THEN LocaleCompare(a.desired_delivery_date, b.desired_delivery_date)
        ELSE IF a.desired_delivery_date # Null THEN 1
        ELSE IF b.desired_delivery_date # Null THEN -1
        ELSE 0

\* lines 84-96: the comparator handed to sort
RowCompare(a, b) ==
    LET nameCompare == LocaleCompare(a.item.name, b.item.name)
    IN  IF nameCompare # 0 THEN nameCompare
        ELSE IF a.desired_delivery_date # Null /\ b.desired_delivery_date # Null
             THEN LocaleCompare(a.desired_delivery_date, b.desired_delivery_date)
        ELSE IF a.desired_delivery_date # Null THEN -1
        ELSE IF b.desired_delivery_date # Null THEN 1
        ELSE 0

\* Array.prototype.sort is stable: a row goes after every row that does not
\* compare greater than it.
RECURSIVE InsertRow(_, _)
InsertRow(sorted, row) ==
    IF sorted = <<>> THEN <<row>>
    ELSE IF RowCompare(Head(sorted), row) <= 0
         THEN <<Head(sorted)>> \o InsertRow(Tail(sorted), row)
         ELSE <<row>> \o sorted

RECURSIVE SortRows(_)
SortRows(rows) ==
    IF rows = <<>> THEN <<>>
    ELSE InsertRow(SortRows(SubSeq(rows, 1, Len(rows) - 1)), rows[Len(rows)])

MapValues(map) == [i \in 1..Len(map) |-> map[i].value]

aggregateLogs(logs, items) ==
    SortRows(MapValues(AggregateMap(<<>>, logs, items)))

(***************************************************************************)
(* Inputs of the aggregation runs                                          *)
(***************************************************************************)
MaxAggLogs == 3

MkItem(id, name, price) ==
    [id |-> id, supplier |-> "ACME", name |-> name,
     specification |-> "10mm", unit |-> "EA", price |-> price]

\* A RequestLog.  unit_price is a history field, not part of the record in the
\* code: the unit price the handler multiplied by when it last wrote
\* quantity and total_cost.
MkLog(id, ln, eq, itemId, itemName, qty, cost, unit, ts, date) ==
    [id |-> id, requester_id |-> "user-12345", line |-> ln, equipment_code |-> eq,
     item_id |-> itemId, item_name |-> itemName, quantity |-> qty,
     total_cost |-> cost, timestamp |-> ts, desired_delivery_date |-> date,
     unit_price |-> unit]

\* Catalogs: two items whose names collate as equal, two items with
\* different names (the second sorts first), and a catalog where "Z01" is gone.
\* The second id contains the separator and a date, the worst case for the
\* string key of a group.
AggCatalogs ==
    { <<MkItem("Z01", "Pad-NFC", 7), MkItem("Z01_2024-01-01", "Pad-NFD", 9)>>,
      <<MkItem("Z01", "Pad-NFC", 7), MkItem("Z01_2024-01-01", "Bolt", 9)>>,
      <<MkItem("Z01_2024-01-01", "Bolt", 9)>> }

AggDates == {Null, "2024-01-01", "2024-01-02"}

\* line, equipment code, quantity and stored unit price of a pooled log
AggShapes ==
    { [line |-> "Press1", eq |-> "EQ-1", qty |-> 1, unit |-> 3],
      [line |-> "Press2", eq |-> Null,   qty |-> 2, unit |-> 4],
      [line |-> "Press1", eq |-> "EQ-2", qty |-> 1, unit |-> 5] }

AggLogOf(itemId, date, sh) ==
    MkLog("log", sh.line, sh.eq, itemId, "snapshot", sh.qty, sh.unit * sh.qty, sh.unit,
          0, date)

\* "X9" is in no catalog: its logs are orphans in every run.
AggLogPool ==
    {AggLogOf("Z01", d, sh) : d \in AggDates, sh \in AggShapes}
    \cup {AggLogOf("Z01_2024-01-01", d, sh) : d \in {Null, "2024-01-01"}, sh \in AggShapes}
    \cup {AggLogOf("X9", Null, sh) : sh \in {x \in AggShapes : x.qty = 1}}

\* the App is not running during the aggregation runs
AppIdle ==
    /\ build = "local"
    /\ masterItems = <<>> /\ requestLogs = <<>>
    /\ error = Null /\ isLoading = FALSE /\ userMode = "general"
    /\ cart = <<>> /\ line = "" /\ equipmentCode = "" /\ desiredDate = ""
    /\ formEvent = "none"
    /\ dbItems = {} /\ dbLogs = {} /\ ops = <<>>
    /\ clock = 0 /\ uuidCount = 0 /\ failures = 0
    /\ AdminIdle

AggInit ==
    /\ aggLogs = <<>>
    /\ aggItems \in AggCatalogs
    /\ aggRows = <<>>
    /\ aggPhase = "input"
    /\ AppIdle

AggAddLog ==
    /\ aggPhase = "input"
    /\ Len(aggLogs) < MaxAggLogs
    /\ \E log \in AggLogPool : aggLogs' = Append(aggLogs, log)
    /\ UNCHANGED <<aggItems, aggRows, aggPhase>>
    /\ UNCHANGED <<appVars, formVars, remoteVars, envVars, adminVars>>

AggRun ==
    /\ aggPhase = "input"
    /\ aggRows' = aggregateLogs(aggLogs, aggItems)
    /\ aggPhase' = "done"
    /\ UNCHANGED <<aggLogs, aggItems>>
    /\ UNCHANGED <<appVars, formVars, remoteVars, envVars, adminVars>>

AggNext == AggAddLog \/ AggRun

SpecAgg == AggInit /\ [][AggNext]_vars

(***************************************************************************)
(* The App: bounds and the values its inputs are drawn from                *)
(***************************************************************************)
MaxQty == 2         \* largest quantity typed into a quantity field
MaxClock == 1       \* the clock stops ticking here
MaxLogs == 2        \* no submission that would take the logs made beyond this
MaxFailures == 1    \* the tables fail at most this many requests

Builds == {"supabase", "local"}

LineNames == {"Press1"}
EquipmentCodes == {"EQ-1"}
DeliveryDates == {"2024-01-01"}

\* the catalog both builds start the form runs with
Catalog0 == <<MkItem("Z02", "Bolt", 7), MkItem("Z01", "Pad-NFC", 5)>>

\* the rows master_items holds when the App runs start
Table0 == {MkItem("Z01", "Pad-NFC", 5)}

\* optional field of the form ('' when empty) to optional column
OrNull(x) == IF x = "" THEN Null ELSE x

\* renderContent: which component is on screen.  The supabase build shows a
\* spinner while isLoading (App.tsx 406-416); the local build never loads.
\* the success dialog is a full-screen overlay (UpdateSuccessModal.tsx
\* 13-16): nothing under it can be clicked while it is open
\* nor while the password dialog is (PasswordModal, part_002 32-35)
NoDialog == ~isUpdateSuccessModalOpen /\ ~isPasswordModalOpen
FormMounted == userMode = "general" /\ ~isLoading /\ NoDialog
AdminMounted == userMode = "admin" /\ ~isLoading /\ NoDialog

\* a freshly mounted RequestForm (its useState initial values)
FormReset ==
    /\ cart' = <<>>
    /\ line' = ""
    /\ equipmentCode' = ""
    /\ desiredDate' = ""
    /\ formEvent' = "none"

CartIds == {cart[i].item.id : i \in 1..Len(cart)}

(***************************************************************************)
(* Requests in flight.  A handler suspended at `await supabase...` is a    *)
(* record: stage "write" = request sent, "wrote" = the table has answered  *)
(* (result), "read" = inside fetchData, "fetched" = the selects answered.  *)
(***************************************************************************)
Op(kind, stage) ==
    [kind |-> kind, stage |-> stage, result |-> "ok",
     logs |-> <<>>, items |-> <<>>, empty |-> FALSE,
     logId |-> Null, quantity |-> 0, total_cost |-> 0, unit_price |-> 0,
     name |-> "", lines |-> <<>>, codes |-> <<>>, file |-> <<>>]

RemoveAt(s, i) == SubSeq(s, 1, i - 1) \o SubSeq(s, i + 1, Len(s))

CanStart == Len(ops) < inFlightLimit

(***************************************************************************)
(* RequestForm handlers (components/RequestForm.tsx)                       *)
(***************************************************************************)
SetLine(ln) ==
    /\ FormMounted
    /\ line' = ln
    /\ formEvent' = "edit"
    /\ UNCHANGED <<cart, equipmentCode, desiredDate>>
    /\ UNCHANGED <<aggVars, adminVars, appVars, remoteVars, envVars>>

\* the local build's form has no equipment code field
SetEquipmentCode(code) ==
    /\ FormMounted
    /\ build = "supabase"
    /\ equipmentCode' = code
    /\ formEvent' = "edit"
    /\ UNCHANGED <<cart, line, desiredDate>>
    /\ UNCHANGED <<aggVars, adminVars, appVars, remoteVars, envVars>>

SetDesiredDate(date) ==
    /\ FormMounted
    /\ desiredDate' = date
    /\ formEvent' = "edit"
    /\ UNCHANGED <<cart, line, equipmentCode>>
    /\ UNCHANGED <<aggVars, adminVars, appVars, remoteVars, envVars>>

\* The result list offers an item only when a line is selected and the item
\* is not in the cart (filteredItems, 27-53).
HandleItemSelect(item) ==
    /\ FormMounted
    /\ line # ""
    /\ item.id \notin CartIds
    /\ cart' = Append(cart, [item |-> item, quantity |-> 1])
    /\ formEvent' = "edit"
    /\ UNCHANGED <<line, equipmentCode, desiredDate>>
    /\ UNCHANGED <<aggVars, adminVars, appVars, remoteVars, envVars>>

HandleRemoveItem(itemId) ==
    /\ FormMounted
    /\ itemId \in CartIds
    /\ cart' = SelectSeq(cart, LAMBDA c : c.item.id # itemId)
    /\ formEvent' = "edit"
    /\ UNCHANGED <<line, equipmentCode, desiredDate>>
    /\ UNCHANGED <<aggVars, adminVars, appVars, remoteVars, envVars>>

Max(a, b) == IF a >= b THEN a ELSE b

HandleQuantityChange(itemId, newQuantity) ==
    /\ FormMounted
    /\ itemId \in CartIds
    /\ LET updatedQuantity == Max(1, newQuantity)
       IN  cart' = [i \in 1..Len(cart) |->
                       IF cart[i].item.id = itemId
                       THEN [cart[i] EXCEPT !.quantity = updatedQuantity]
                       ELSE cart[i]]
    /\ formEvent' = "edit"
    /\ UNCHANGED <<line, equipmentCode, desiredDate>>
    /\ UNCHANGED <<aggVars, adminVars, appVars, remoteVars, envVars>>

(***************************************************************************)
(* handleRequestSubmit                                                     *)
(***************************************************************************)
\* crypto.randomUUID(): a fresh id each call
Uuid(n) == "uuid-" \o ToString(n)

\* App.tsx 292-306: cart.map; new Date() is read once per cart entry
\* (stamps[k] is what the k-th read returned)
NewLogsSupabase(c, ln, eq, date, stamps, uuids) ==
    [k \in 1..Len(c) |->
        MkLog(Uuid(uuids + k), ln, OrNull(eq), c[k].item.id, c[k].item.name,
              c[k].quantity, c[k].item.price * c[k].quantity, c[k].item.price,
              stamps[k], OrNull(date))]

\* part_005 178-189: Date.now() is read once, before the map
NewLogsLocal(c, ln, date, timestamp) ==
    [k \in 1..Len(c) |->
        MkLog(ToString(timestamp) \o "-" \o c[k].item.id \o "-" \o ToString(k - 1),
              ln, Null, c[k].item.id, c[k].item.name,
              c[k].quantity, c[k].item.price * c[k].quantity, c[k].item.price,
              timestamp, OrNull(date))]

\* successive reads of the clock: never going back, at most MaxClock
ClockReads(n) ==
    {st \in [1..n -> clock..MaxClock] : \A i \in 1..(n - 1) : st[i] <= st[i + 1]}

\* the changes handleRequestSubmit makes outside the form
RequestSubmit(c, ln, eq, date) ==
    IF build = "supabase"
    THEN \E stamps \in ClockReads(Len(c)) :
            /\ ops' = Append(ops, [Op("submit", "write") EXCEPT
                          !.logs = NewLogsSupabase(c, ln, eq, date, stamps, uuidCount)])
            /\ clock' = IF Len(c) = 0 THEN clock ELSE stamps[Len(c)]
            /\ uuidCount' = uuidCount + Len(c)
            /\ UNCHANGED failures
            /\ UNCHANGED <<appVars, dbItems, dbLogs>>
    ELSE /\ requestLogs' = NewLogsLocal(c, ln, date, clock) \o requestLogs
         /\ UNCHANGED <<build, masterItems, error, isLoading, userMode>>
         /\ UNCHANGED <<remoteVars, envVars>>

\* logs made so far (supabase build: every log takes a fresh uuid) or held
\* (local build)
LogsMade == IF build = "supabase" THEN uuidCount ELSE Len(requestLogs)

\* handleSubmit guarding with "or" instead of "and"
HandleSubmitEitherOne ==
    /\ FormMounted
    /\ IF Len(cart) > 0 \/ line # ""
       THEN /\ CanStart
            /\ LogsMade + Len(cart) <= MaxLogs
            /\ RequestSubmit(cart, line, equipmentCode, desiredDate)
            /\ cart' = <<>>
            /\ line' = ""
            /\ equipmentCode' = ""
            /\ desiredDate' = ""
            /\ formEvent' = "submitted"
       ELSE /\ formEvent' = "rejected"
            /\ UNCHANGED <<cart, line, equipmentCode, desiredDate>>
            /\ UNCHANGED <<appVars, remoteVars, envVars>>
    /\ UNCHANGED <<aggVars, adminVars>>

\* RequestForm.handleSubmit (81-90) with the onSubmit it calls
HandleSubmit ==
    /\ FormMounted
    /\ IF Len(cart) > 0 /\ line # ""
       THEN /\ CanStart
            /\ LogsMade + Len(cart) <= MaxLogs
            /\ RequestSubmit(cart, line, equipmentCode, desiredDate)
            /\ cart' = <<>>
            /\ line' = ""
            /\ equipmentCode' = ""
            /\ desiredDate' = ""
            /\ formEvent' = "submitted"
       ELSE /\ formEvent' = "rejected"
            /\ UNCHANGED <<cart, line, equipmentCode, desiredDate>>
            /\ UNCHANGED <<appVars, remoteVars, envVars>>
    /\ UNCHANGED <<aggVars, adminVars>>

Tick ==
    /\ clock < MaxClock
    /\ clock' = clock + 1
    /\ UNCHANGED <<uuidCount, failures>>
    /\ UNCHANGED <<aggVars, adminVars, appVars, formVars, remoteVars>>

(***************************************************************************)
(* The tables behind supabaseClient: master_items and request_logs, both   *)
(* with primary key id.  A request is applied (DbCommit) some time after   *)
(* the handler sent it, and the handler resumes (Continue) some time after *)
(* that; any request can fail.                                             *)
(***************************************************************************)
Ids(rows) == {r.id : r \in rows}

HasDuplicateIds(items) ==
    \E i, j \in 1..Len(items) : i # j /\ items[i].id = items[j].id

\* upsert(parsedItems, { onConflict: 'id' })
Upsert(table, items) ==
    {r \in table : r.id \notin Ids(Range(items))} \cup Range(items)

Perms(S) ==
    {f \in [1..Cardinality(S) -> S] :
        \A i, j \in 1..Cardinality(S) : i # j => f[i] # f[j]}

\* .order('name'): rows of equal name come in any order
ItemsByName(table) ==
    {f \in Perms(table) :
        \A i \in 1..(Cardinality(table) - 1) :
            CollationRank(f[i].name) <= CollationRank(f[i + 1].name)}

\* .delete().eq('name', lineToDelete) / .eq('code', codeToDelete)
DeletedRows(table, name) == {row \in table : row # name}

\* .order('name') / .order('code') on the reference lists
NamesInOrder(table) ==
    {f \in Perms(table) :
        \A i \in 1..(Cardinality(table) - 1) :
            CollationRank(f[i]) <= CollationRank(f[i + 1])}

\* .order('timestamp', { ascending: false })
LogsByTimestampDesc(table) ==
    {f \in Perms(table) :
        \A i \in 1..(Cardinality(table) - 1) : f[i].timestamp >= f[i + 1].timestamp}

\* an import that also rewrites the name kept by the logs of the items it
\* writes
AppliedRenaming(op) ==
    CASE op.kind = "submit" ->
            /\ dbLogs' = dbLogs \cup Range(op.logs)
            /\ UNCHANGED <<dbItems, listTables>>
      [] op.kind \in {"import", "addItem"} ->
            /\ dbItems' = Upsert(dbItems, op.items)
            /\ dbLogs' = {IF HasItem(op.items, l.item_id)
                          THEN [l EXCEPT !.item_name = FindItem(op.items, l.item_id).name]
                          ELSE l : l \in dbLogs}
            /\ UNCHANGED listTables
      [] op.kind = "deleteLog" ->
            /\ dbLogs' = {l \in dbLogs : l.id # op.logId}
            /\ UNCHANGED <<dbItems, listTables>>
      [] op.kind = "updateLog" ->
            /\ dbLogs' = {IF l.id = op.logId
                          THEN [l EXCEPT !.quantity = op.quantity,
                                         !.total_cost = op.total_cost,
                                         !.unit_price = op.unit_price]
                          ELSE l : l \in dbLogs}
            /\ UNCHANGED <<dbItems, listTables>>
      [] op.kind = "addLine" ->
            /\ dbLines' = dbLines \cup {op.name}
            /\ UNCHANGED <<dbItems, dbLogs, dbCodes>>
      [] op.kind = "deleteLine" ->
            /\ dbLines' = DeletedRows(dbLines, op.name)
            /\ UNCHANGED <<dbItems, dbLogs, dbCodes>>
      [] op.kind = "addCode" ->
            /\ dbCodes' = dbCodes \cup {op.name}
            /\ UNCHANGED <<dbItems, dbLogs, dbLines>>
      [] op.kind = "deleteCode" ->
            /\ dbCodes' = DeletedRows(dbCodes, op.name)
            /\ UNCHANGED <<dbItems, dbLogs, dbLines>>

\* the row(s) a request changes, once the table applies it
Applied(op) ==
    CASE op.kind = "submit" ->
            /\ dbLogs' = dbLogs \cup Range(op.logs)
            /\ UNCHANGED <<dbItems, listTables>>
      [] op.kind = "import" ->
            /\ dbItems' = Upsert(dbItems, op.items)
            /\ UNCHANGED <<dbLogs, listTables>>
      [] op.kind = "addItem" ->
            /\ dbItems' = dbItems \cup Range(op.items)
            /\ UNCHANGED <<dbLogs, listTables>>
      [] op.kind = "deleteLog" ->
            /\ dbLogs' = {l \in dbLogs : l.id # op.logId}
            /\ UNCHANGED <<dbItems, listTables>>
      [] op.kind = "updateLog" ->
            /\ dbLogs' = {IF l.id = op.logId
                          THEN [l EXCEPT !.quantity = op.quantity,
                                         !.total_cost = op.total_cost,
                                         !.unit_price = op.unit_price]
                          ELSE l : l \in dbLogs}
            /\ UNCHANGED <<dbItems, listTables>>
      [] op.kind = "addLine" ->
            /\ dbLines' = dbLines \cup {op.name}
            /\ UNCHANGED <<dbItems, dbLogs, dbCodes>>
      [] op.kind = "deleteLine" ->
            /\ dbLines' = DeletedRows(dbLines, op.name)
            /\ UNCHANGED <<dbItems, dbLogs, dbCodes>>
      [] op.kind = "addCode" ->
            /\ dbCodes' = dbCodes \cup {op.name}
            /\ UNCHANGED <<dbItems, dbLogs, dbLines>>
      [] op.kind = "deleteCode" ->
            /\ dbCodes' = DeletedRows(dbCodes, op.name)
            /\ UNCHANGED <<dbItems, dbLogs, dbLines>>

\* what the table answers when it refuses the request
Refusal(op) ==
    CASE op.kind = "addItem" /\ op.items[1].id \in Ids(dbItems) -> "duplicate"
      [] op.kind = "import" /\ HasDuplicateIds(op.items) -> "error"
      [] op.kind = "addLine" /\ op.name \in dbLines -> "duplicate"
      [] op.kind = "addCode" /\ op.name \in dbCodes -> "duplicate"
      [] OTHER -> "ok"

CanFail == failures < MaxFailures

DbCommit(i) ==
    /\ i \in 1..Len(ops)
    /\ ops[i].stage = "write"
    /\ \/ /\ ops' = [ops EXCEPT ![i].stage = "wrote", ![i].result = Refusal(ops[i])]
          /\ IF Refusal(ops[i]) = "ok"
             THEN Applied(ops[i])
             ELSE UNCHANGED <<dbItems, dbLogs, listTables>>
          /\ UNCHANGED failures
       \/ /\ CanFail
          /\ ops' = [ops EXCEPT ![i].stage = "wrote", ![i].result = "error"]
          /\ failures' = failures + 1
          /\ UNCHANGED <<dbItems, dbLogs, listTables>>
    /\ UNCHANGED <<csvVars, dashVars, isUpdateSuccessModalOpen, listVars>>
    /\ UNCHANGED <<authVars, lastMasterUpdate, sideVars>>
    /\ UNCHANGED <<aggVars, appVars, formVars, clock, uuidCount>>

StartsFetch(op) ==
    /\ op.result = "ok"
    /\ op.kind \in {"submit", "import", "addItem",
                    "addLine", "deleteLine", "addCode", "deleteCode"}

\* the handler resumes after `await supabase.from(...)...`
Continue(i) ==
    /\ i \in 1..Len(ops)
    /\ ops[i].stage = "wrote"
    /\ LET op == ops[i]
       IN  /\ IF StartsFetch(op)
              THEN /\ ops' = [ops EXCEPT ![i].stage = "read"]
                   /\ isLoading' = TRUE
                   /\ FormReset
                   /\ UNCHANGED <<requestLogs, error>>
              ELSE /\ ops' = RemoveAt(ops, i)
                   /\ UNCHANGED <<isLoading, formVars>>
                   /\ IF op.result = "ok"
                      THEN /\ UNCHANGED error
                           /\ requestLogs' =
                                IF op.kind = "deleteLog"
                                THEN SelectSeq(requestLogs, LAMBDA l : l.id # op.logId)
                                ELSE [k \in 1..Len(requestLogs) |->
                                        IF requestLogs[k].id = op.logId
                                        THEN [requestLogs[k] EXCEPT
                                                !.quantity = op.quantity,
                                                !.total_cost = op.total_cost,
                                                !.unit_price = op.unit_price]
                                        ELSE requestLogs[k]]
                      ELSE /\ UNCHANGED requestLogs
                           /\ error' =
                                IF op.kind \in {"addItem", "addLine", "addCode"}
                                THEN error ELSE op.kind
    /\ UNCHANGED <<build, masterItems, userMode>>
    /\ UNCHANGED <<aggVars, adminVars, dbItems, dbLogs, envVars>>

\* fetchData, first select (App.tsx 40-45)
FetchItems(i) ==
    /\ i \in 1..Len(ops)
    /\ ops[i].stage = "read"
    /\ \/ /\ \E rows \in ItemsByName(dbItems) :
                ops' = [ops EXCEPT ![i].stage = "readLogs", ![i].items = rows]
          /\ UNCHANGED failures
       \/ /\ CanFail
          /\ ops' = [ops EXCEPT ![i].stage = "fetched", ![i].result = "error"]
          /\ failures' = failures + 1
    /\ UNCHANGED <<aggVars, adminVars, appVars, formVars, dbItems, dbLogs, clock, uuidCount>>

\* fetchData, the selects after the first (App.tsx 48-69)
FetchLogs(i) ==
    /\ i \in 1..Len(ops)
    /\ ops[i].stage = "readLogs"
    /\ \/ /\ \E rows \in LogsByTimestampDesc(dbLogs),
                   names \in NamesInOrder(dbLines),
                   codes \in NamesInOrder(dbCodes) :
                ops' = [ops EXCEPT ![i].stage = "fetched", ![i].logs = rows,
                                   ![i].lines = names, ![i].codes = codes]
          /\ UNCHANGED failures
       \/ /\ CanFail
          /\ ops' = [ops EXCEPT ![i].stage = "fetched", ![i].result = "error"]
          /\ failures' = failures + 1
    /\ UNCHANGED <<aggVars, adminVars, appVars, formVars, dbItems, dbLogs, clock, uuidCount>>

\* fetchData from setMasterItems to finally (App.tsx 71-85), then what the
\* caller does after `await fetchData()`
FetchDone(i) ==
    /\ i \in 1..Len(ops)
    /\ ops[i].stage = "fetched"
    /\ LET op == ops[i]
       IN  /\ IF op.result = "ok"
              THEN /\ masterItems' = op.items
                   /\ requestLogs' = op.logs
                   /\ lines' = op.lines
                   /\ equipmentCodes' = op.codes
                   /\ lastMasterUpdate' = NoDate
              ELSE UNCHANGED <<masterItems, requestLogs, listVars,
                               lastMasterUpdate>>
           /\ error' = IF op.kind = "import" THEN Null
                       ELSE IF op.result = "ok" THEN error ELSE "fetch"
           /\ isUpdateSuccessModalOpen' =
                 IF op.kind = "import" THEN TRUE ELSE isUpdateSuccessModalOpen
    /\ isLoading' = FALSE
    /\ ops' = RemoveAt(ops, i)
    /\ UNCHANGED <<build, userMode>>
    /\ UNCHANGED <<csvVars, dashVars, listTables>>
    /\ UNCHANGED <<authVars, sideVars>>
    /\ UNCHANGED <<aggVars, formVars, dbItems, dbLogs, envVars>>

(***************************************************************************)
(* Header and AdminDashboard handlers                                      *)
(***************************************************************************)
\* handleModeChange('admin') followed by the password modal accepting the
\* password (handlePasswordSubmit)
EnterAdmin ==
    /\ userMode = "general"
    /\ ~isUpdateSuccessModalOpen
    /\ ~isPasswordModalOpen
    /\ userMode' = "admin"
    /\ isAdminAuthenticated' = TRUE
    /\ authEvent' = AuthEvent("submit", adminPassword, TRUE)
    /\ FormReset
    /\ UNCHANGED <<isPasswordModalOpen, adminPassword, storedPassword>>
    /\ UNCHANGED <<build, masterItems, requestLogs, error, isLoading>>
    /\ UNCHANGED <<dashVars, isUpdateSuccessModalOpen, listVars, listTables>>
    /\ UNCHANGED <<csvVars, lastMasterUpdate, sideVars>>
    /\ UNCHANGED <<aggVars, remoteVars, envVars>>

\* handleModeChange('general')
LeaveAdmin ==
    /\ userMode = "admin"
    /\ ~isUpdateSuccessModalOpen
    /\ ~isPasswordModalOpen
    /\ userMode' = "general"
    /\ isAdminAuthenticated' = FALSE
    /\ authEvent' = AuthEvent("mode", "", FALSE)
    /\ UNCHANGED <<isPasswordModalOpen, adminPassword, storedPassword>>
    /\ UNCHANGED <<build, masterItems, requestLogs, error, isLoading>>
    /\ UNCHANGED <<dashVars, isUpdateSuccessModalOpen, listVars, listTables>>
    /\ UNCHANGED <<csvVars, lastMasterUpdate, sideVars>>
    /\ UNCHANGED <<aggVars, formVars, remoteVars, envVars>>

\* the files the administrator can pick: [empty, parsed] is whether the text
\* read is empty and the rows the parser keeps
FileFull == [empty |-> FALSE, parsed |-> Catalog0]
FileReprice == [empty |-> FALSE, parsed |-> <<MkItem("Z01", "Washer", 9)>>]
FileNoRows == [empty |-> FALSE, parsed |-> <<>>]
FileBlank == [empty |-> TRUE, parsed |-> <<>>]
Files == {FileFull, FileReprice, FileNoRows, FileBlank}

\* handleFileChange up to reader.readAsText
HandleFileChange(file) ==
    /\ AdminMounted
    /\ CanStart
    /\ error' = Null
    /\ ops' = Append(ops, [Op("import", "reading") EXCEPT
                              !.items = file.parsed, !.empty = file.empty,
                              !.file = file.parsed])
    /\ UNCHANGED <<build, masterItems, requestLogs, isLoading, userMode>>
    /\ UNCHANGED <<aggVars, adminVars, formVars, dbItems, dbLogs, envVars>>

\* an import that lets a file without a valid row through
ImportErrorNoRowsPass(op) == IF op.empty THEN "unreadable" ELSE Null

\* the error reader.onload ends with before it writes anything: the text is
\* empty (`!text`), or no row was accepted (parsedItems.length === 0)
ImportError(op) ==
    IF op.empty THEN "unreadable"
    ELSE IF Len(op.items) = 0 THEN "import"
    ELSE Null

\* reader.onload up to the upsert (supabase build) or to the end (local build)
Onload(i) ==
    /\ i \in 1..Len(ops)
    /\ ops[i].stage = "reading"
    /\ LET op == ops[i]
       IN  IF ImportError(op) # Null
           THEN /\ error' = ImportError(op)
                /\ ops' = RemoveAt(ops, i)
                /\ UNCHANGED <<masterItems, isUpdateSuccessModalOpen,
                               lastMasterUpdate>>
           ELSE IF build = "supabase"
           THEN /\ ops' = [ops EXCEPT ![i].stage = "write"]
                /\ UNCHANGED <<masterItems, error, isUpdateSuccessModalOpen,
                               lastMasterUpdate>>
           ELSE /\ masterItems' = op.items
                /\ lastMasterUpdate' = <<clock>>
                /\ isUpdateSuccessModalOpen' = TRUE
                /\ error' = Null
                /\ ops' = RemoveAt(ops, i)
    /\ UNCHANGED <<build, requestLogs, isLoading, userMode>>
    /\ UNCHANGED <<csvVars, dashVars, listVars, listTables>>
    /\ UNCHANGED <<authVars, sideVars>>
    /\ UNCHANGED <<aggVars, formVars, dbItems, dbLogs, envVars>>

\* UpdateSuccessModal onClose (App.tsx 465)
CloseUpdateModal ==
    /\ isUpdateSuccessModalOpen
    /\ isUpdateSuccessModalOpen' = FALSE
    /\ UNCHANGED <<csvVars, dashVars, listVars, listTables>>
    /\ UNCHANGED <<authVars, lastMasterUpdate, sideVars>>
    /\ UNCHANGED <<aggVars, appVars, formVars, remoteVars, envVars>>

ToLowerCase(s) ==
    CASE s = "Z01" -> "z01"
      [] s = "Z02" -> "z02"
      [] s = "Press1" -> "press1"
      [] s = "Lathe" -> "lathe"
      [] s = "EQ-1" -> "eq-1"
      [] s = "EQ-2" -> "eq-2"
      [] OTHER -> s

AddCandidates == {MkItem("Z02", "Bolt", 7)}

\* handleAddItem of the local build (part_005 152-159): the value returned
\* and the catalog it leaves
AddItemReturn(items, newItem) ==
    IF \E k \in 1..Len(items) :
          ToLowerCase(items[k].id) = ToLowerCase(newItem.id)
    THEN "duplicate"
    ELSE Null

AddedItems(items, newItem) ==
    IF AddItemReturn(items, newItem) = Null
    THEN <<newItem>> \o items
    ELSE items

\* handleAddItem of the supabase build (App.tsx 204-219): the request it
\* sends, and the value it returns for each answer of the table
AddItemOp(newItem) == [Op("addItem", "write") EXCEPT !.items = <<newItem>>]

AddItemMessage(result) ==
    CASE result = "ok"        -> Null
      [] result = "duplicate" -> "duplicate"
      [] OTHER                -> "failed"

HandleAddItem(newItem) ==
    /\ AdminMounted
    /\ IF build = "supabase"
       THEN /\ CanStart
            /\ ops' = Append(ops, AddItemOp(newItem))
            /\ UNCHANGED <<masterItems, lastMasterUpdate>>
       ELSE /\ masterItems' = AddedItems(masterItems, newItem)
            /\ lastMasterUpdate' =
                  IF AddItemReturn(masterItems, newItem) = Null
                  THEN <<clock>> ELSE lastMasterUpdate
            /\ UNCHANGED ops
    /\ UNCHANGED <<build, requestLogs, error, isLoading, userMode>>
    /\ UNCHANGED <<dashVars, isUpdateSuccessModalOpen, listVars, listTables>>
    /\ UNCHANGED <<csvVars, authVars, sideVars>>
    /\ UNCHANGED <<aggVars, formVars, dbItems, dbLogs, envVars>>

LogIds == {requestLogs[k].id : k \in 1..Len(requestLogs)}

\* confirming the deletion of a listed log
HandleDeleteLog(logId) ==
    /\ AdminMounted
    /\ logId \in LogIds
    /\ IF build = "supabase"
       THEN /\ CanStart
            /\ ops' = Append(ops, [Op("deleteLog", "write") EXCEPT !.logId = logId])
            /\ UNCHANGED requestLogs
       ELSE /\ requestLogs' = SelectSeq(requestLogs, LAMBDA l : l.id # logId)
            /\ UNCHANGED ops
    /\ UNCHANGED <<build, masterItems, error, isLoading, userMode>>
    /\ UNCHANGED <<aggVars, adminVars, formVars, dbItems, dbLogs, envVars>>

FirstLog(logs, logId) ==
    logs[FirstIndex({k \in 1..Len(logs) : logs[k].id = logId})]

\* App.tsx 339-348: the update request handleUpdateLogQuantity builds
UpdateRequest(logs, items, logId, newQuantity) ==
    LET log == FirstLog(logs, logId)
        unitPrice == IF HasItem(items, log.item_id)
                     THEN FindItem(items, log.item_id).price
                     ELSE log.total_cost \div log.quantity
        newTotalCost == unitPrice * newQuantity
    IN  [Op("updateLog", "write") EXCEPT
            !.logId = logId, !.quantity = newQuantity,
            !.total_cost = newTotalCost, !.unit_price = unitPrice]

\* App.tsx 339-366 up to the await
UpdateLogQuantitySupabase(logId, newQuantity) ==
    IF newQuantity <= 0 \/ logId \notin LogIds
    THEN UNCHANGED <<requestLogs, ops>>
    ELSE /\ ops' = Append(ops, UpdateRequest(requestLogs, masterItems, logId, newQuantity))
         /\ UNCHANGED requestLogs

\* the mapping handed to setRequestLogs, writing the quantity but leaving
\* the total cost as it was
UpdatedLogsKeepCost(logs, items, logId, newQuantity) ==
    [k \in 1..Len(logs) |->
        IF logs[k].id = logId /\ HasItem(items, logs[k].item_id) /\ newQuantity > 0
        THEN [logs[k] EXCEPT
                !.quantity = newQuantity,
                !.unit_price = FindItem(items, logs[k].item_id).price]
        ELSE logs[k]]

\* part_005 200-212: the mapping handed to setRequestLogs
UpdatedLogs(logs, items, logId, newQuantity) ==
    [k \in 1..Len(logs) |->
        IF logs[k].id = logId /\ HasItem(items, logs[k].item_id) /\ newQuantity > 0
        THEN [logs[k] EXCEPT
                !.quantity = newQuantity,
                !.total_cost = FindItem(items, logs[k].item_id).price * newQuantity,
                !.unit_price = FindItem(items, logs[k].item_id).price]
        ELSE logs[k]]

\* part_005 199-213
UpdateLogQuantityLocal(logId, newQuantity) ==
    /\ requestLogs' = UpdatedLogs(requestLogs, masterItems, logId, newQuantity)
    /\ UNCHANGED ops

\* handleSaveEdit on a listed log, with the quantity typed into the field
HandleSaveEdit(logId, editingQuantity) ==
    /\ AdminMounted
    /\ logId \in LogIds
    /\ IF editingQuantity > 0
       THEN IF build = "supabase"
            THEN CanStart /\ UpdateLogQuantitySupabase(logId, editingQuantity)
            ELSE UpdateLogQuantityLocal(logId, editingQuantity)
       ELSE UNCHANGED <<requestLogs, ops>>
    /\ UNCHANGED <<build, masterItems, error, isLoading, userMode>>
    /\ UNCHANGED <<aggVars, adminVars, formVars, dbItems, dbLogs, envVars>>

(***************************************************************************)
(* CSV import: the row parser of reader.onload (App.tsx 114-141,           *)
(* part_005 61-95).  A string is a sequence of one-character strings.      *)
(***************************************************************************)
Quote == "\""
Comma == ","
Space == " "
Digits == <<"0", "1", "2", "3", "4", "5", "6", "7", "8", "9">>
InfinityWord == <<"I", "n", "f", "i", "n", "i", "t", "y">>

CountQuotes(s) == Cardinality({i \in 1..Len(s) : s[i] = Quote})

\* a splitter that splits on every comma
SplitPointsEveryComma(row) == {i \in 1..Len(row) : row[i] = Comma}

\* the commas matched by /,(?=(?:(?:[^"]*"){2})*[^"]*$)/: those followed by
\* an even number of double quotes up to the end of the row
SplitPoints(row) ==
    {i \in 1..Len(row) :
        /\ row[i] = Comma
        /\ CountQuotes(SubSeq(row, i + 1, Len(row))) % 2 = 0}

\* String.prototype.split on those commas
Split(row) ==
    LET points == SplitPoints(row)
        n == Cardinality(points)
        point(k) == CHOOSE p \in points :
                        Cardinality({q \in points : q < p}) = k - 1
        from(k) == IF k = 1 THEN 1 ELSE point(k - 1) + 1
        to(k) == IF k = n + 1 THEN Len(row) ELSE point(k) - 1
    IN  [k \in 1..(n + 1) |-> SubSeq(row, from(k), to(k))]

\* String.prototype.trim
Trim(s) ==
    LET inked == {i \in 1..Len(s) : s[i] # Space}
    IN  IF inked = {} THEN <<>>
        ELSE SubSeq(s, CHOOSE i \in inked : \A j \in inked : i <= j,
                       CHOOSE i \in inked : \A j \in inked : i >= j)

\* String.prototype.substring(start, end): both clamped to 0..length, and
\* swapped when start > end
Substring(s, start, end) ==
    LET clamp(x) == IF x < 0 THEN 0 ELSE IF x > Len(s) THEN Len(s) ELSE x
        lo == IF clamp(start) <= clamp(end) THEN clamp(start) ELSE clamp(end)
        hi == IF clamp(start) <= clamp(end) THEN clamp(end) ELSE clamp(start)
    IN  SubSeq(s, lo + 1, hi)

\* replace(/""/g, '"')
RECURSIVE UnescapeQuotes(_)
UnescapeQuotes(s) ==
    IF Len(s) < 2 THEN s
    ELSE IF s[1] = Quote /\ s[2] = Quote
         THEN <<Quote>> \o UnescapeQuotes(SubSeq(s, 3, Len(s)))
         ELSE <<s[1]>> \o UnescapeQuotes(Tail(s))

\* the callback of .map(c => ...)
Clean(c) ==
    LET clean == Trim(c)
        stripped ==
            IF Len(clean) > 0 /\ clean[1] = Quote /\ clean[Len(clean)] = Quote
            THEN Substring(clean, 1, Len(clean) - 1)
            ELSE clean
    IN  UnescapeQuotes(stripped)

Columns(row) == [k \in 1..Len(Split(row)) |-> Clean(Split(row)[k])]

\* replace(/,/g, '')
RemoveCommas(s) == SelectSeq(s, LAMBDA ch : ch # Comma)

IsDigit(ch) == \E d \in 1..10 : Digits[d] = ch
DigitValue(ch) == (CHOOSE d \in 1..10 : Digits[d] = ch) - 1

IsPrefix(p, s) == Len(p) <= Len(s) /\ SubSeq(s, 1, Len(p)) = p

RECURSIVE Decimal(_)
Decimal(digits) ==
    IF digits = <<>> THEN 0
    ELSE 10 * Decimal(SubSeq(digits, 1, Len(digits) - 1))
         + DigitValue(digits[Len(digits)])

\* parseFloat on strings of letters, digits and spaces: leading white space
\* is skipped, then the longest prefix that is a number is read and the rest
\* is ignored; "Infinity" is a number; no number at the front gives NaN
ParseFloat(s) ==
    LET inked == {i \in 1..Len(s) : s[i] # Space}
        t == IF inked = {} THEN <<>>
             ELSE SubSeq(s, CHOOSE i \in inked : \A j \in inked : i <= j,
                            Len(s))
        n == IF \A i \in 1..Len(t) : IsDigit(t[i]) THEN Len(t)
             ELSE (CHOOSE i \in 1..Len(t) :
                      /\ ~IsDigit(t[i])
                      /\ \A j \in 1..(i - 1) : IsDigit(t[j])) - 1
    IN  IF IsPrefix(InfinityWord, t) THEN Infinite
        ELSE IF n = 0 THEN NaN
        ELSE Finite(Decimal(SubSeq(t, 1, n)))

\* isNaN(price)
PriceRefused(price) == price = NaN

\* the body of rows.forEach for one row: the items it pushes (none or one)
ParsedRow(row) ==
    IF Trim(row) = <<>> THEN <<>>
    ELSE LET columns == Columns(row)
         IN  IF Len(columns) >= 6
             THEN LET id == columns[1]
                      name == columns[3]
                      price == ParseFloat(RemoveCommas(columns[6]))
                  IN  IF id # <<>> /\ name # <<>> /\ ~PriceRefused(price)
                      THEN << [id            |-> Trim(id),
                               supplier      |-> Trim(columns[2]),
                               name          |-> Trim(name),
                               specification |-> Trim(columns[4]),
                               unit          |-> Trim(columns[5]),
                               price         |-> price] >>
                      ELSE <<>>
             ELSE <<>>

\* rows.forEach over the data rows of the file
RECURSIVE ParsedItems(_)
ParsedItems(rows) ==
    IF rows = <<>> THEN <<>>
    ELSE ParsedItems(SubSeq(rows, 1, Len(rows) - 1))
         \o ParsedRow(rows[Len(rows)])

(***************************************************************************)
(* Behaviours                                                              *)
(***************************************************************************)
\* the reference lists: INITIAL_LINES in the local build (part_005 13, one
\* name stands for the seven), the rows of the two tables in the supabase
\* build, which memory holds once fetchData has run
InitialLines == <<"Press1">>
LineTable0 == {"Press1"}
CodeTable0 == {"EQ-1"}

ListsAtMount ==
    /\ lines = IF build = "local" THEN InitialLines ELSE <<>>
    /\ equipmentCodes = <<>>
    /\ dbLines = IF build = "supabase" THEN LineTable0 ELSE {}
    /\ dbCodes = IF build = "supabase" THEN CodeTable0 ELSE {}

ListsLoaded ==
    /\ lines = InitialLines
    /\ equipmentCodes = IF build = "supabase" THEN <<"EQ-1">> ELSE <<>>
    /\ dbLines = IF build = "supabase" THEN LineTable0 ELSE {}
    /\ dbCodes = IF build = "supabase" THEN CodeTable0 ELSE {}

\* no aggregation run is being driven
AggIdle ==
    /\ aggLogs = <<>> /\ aggItems = <<>> /\ aggRows = <<>>
    /\ aggPhase = "idle"

FormBlank ==
    /\ cart = <<>> /\ line = "" /\ equipmentCode = "" /\ desiredDate = ""
    /\ formEvent = "none"

\* The request form at work: a general user in front of a loaded catalog.
FormInit ==
    /\ AggIdle
    /\ build \in Builds
    /\ masterItems = Catalog0
    /\ requestLogs = <<>>
    /\ error = Null
    /\ isLoading = FALSE
    /\ userMode = "general"
    /\ FormBlank
    /\ dbItems = IF build = "supabase" THEN Range(Catalog0) ELSE {}
    /\ dbLogs = {}
    /\ ops = <<>>
    /\ clock = 0
    /\ uuidCount = 0
    /\ failures = 0
    /\ DashIdle
    /\ isUpdateSuccessModalOpen = FALSE
    /\ CsvIdle
    /\ LockAtMount
    /\ lastMasterUpdate = NoDate
    /\ SideIdle
    /\ ListsLoaded

\* these runs follow the form up to its first submission, and that
\* submission to its end
Quiet == ops = <<>> /\ LogsMade = 0

FormNext ==
    \/ \E ln \in LineNames \cup {""} : Quiet /\ SetLine(ln)
    \/ \E code \in EquipmentCodes \cup {""} : Quiet /\ SetEquipmentCode(code)
    \/ \E date \in DeliveryDates \cup {""} : Quiet /\ SetDesiredDate(date)
    \/ \E item \in Range(masterItems) : Quiet /\ HandleItemSelect(item)
    \/ \E itemId \in CartIds : Quiet /\ HandleRemoveItem(itemId)
    \/ \E itemId \in CartIds, newQuantity \in 0..MaxQty :
          Quiet /\ HandleQuantityChange(itemId, newQuantity)
    \/ Quiet /\ HandleSubmit
    \/ Tick
    \/ \E i \in 1..Len(ops) : DbCommit(i)
    \/ \E i \in 1..Len(ops) : Continue(i)
    \/ \E i \in 1..Len(ops) : FetchItems(i)
    \/ \E i \in 1..Len(ops) : FetchLogs(i)
    \/ \E i \in 1..Len(ops) : FetchDone(i)

SpecForm == FormInit /\ [][FormNext]_vars

\* carts handed to onSubmit in the App runs: one catalog item, quantity >= 1
Carts(items) ==
    {<<[item |-> it, quantity |-> q]>> : it \in Range(items), q \in 1..MaxQty}

\* the equipment code entered in the App runs (the local form has no such field)
CodeEntered == IF build = "supabase" THEN "EQ-1" ELSE ""

\* RequestForm.handleSubmit passing its guard, seen from the App: the form
\* calls onSubmit with what the user entered.
SubmitRequest(c, ln, eq, date) ==
    /\ FormMounted
    /\ CanStart
    /\ LogsMade + Len(c) <= MaxLogs
    /\ RequestSubmit(c, ln, eq, date)
    /\ UNCHANGED <<aggVars, adminVars, formVars>>

\* The App from its first render.  The supabase build starts inside
\* fetchData (useEffect, App.tsx 88-93).
Init ==
    /\ AggIdle
    /\ build \in Builds
    /\ masterItems = <<>>
    /\ requestLogs = <<>>
    /\ error = Null
    /\ isLoading = (build = "supabase")
    /\ userMode = "general"
    /\ FormBlank
    /\ dbItems = IF build = "supabase" THEN Table0 ELSE {}
    /\ dbLogs = {}
    /\ ops = IF build = "supabase" THEN <<Op("mount", "read")>> ELSE <<>>
    /\ clock = 0
    /\ uuidCount = 0
    /\ failures = 0
    /\ DashIdle
    /\ isUpdateSuccessModalOpen = FALSE
    /\ CsvIdle
    /\ LockAtMount
    /\ lastMasterUpdate = NoDate
    /\ SideIdle
    /\ ListsAtMount

Next ==
    \/ EnterAdmin
    \/ LeaveAdmin
    \/ \E file \in Files : HandleFileChange(file)
    \/ \E i \in 1..Len(ops) : Onload(i)
    \/ \E newItem \in AddCandidates : HandleAddItem(newItem)
    \/ CloseUpdateModal
    \/ \E c \in Carts(masterItems), ln \in LineNames, date \in DeliveryDates :
          SubmitRequest(c, ln, CodeEntered, date)
    \/ \E logId \in LogIds : HandleDeleteLog(logId)
    \/ \E logId \in LogIds, editingQuantity \in 0..MaxQty :
          HandleSaveEdit(logId, editingQuantity)
    \/ Tick
    \/ \E i \in 1..Len(ops) : DbCommit(i)
    \/ \E i \in 1..Len(ops) : Continue(i)
    \/ \E i \in 1..Len(ops) : FetchItems(i)
    \/ \E i \in 1..Len(ops) : FetchLogs(i)
    \/ \E i \in 1..Len(ops) : FetchDone(i)

Spec == Init /\ [][Next]_vars

(***************************************************************************)
(* The dashboard's two navigators (AdminDashboard.tsx 107-120, 202-215)    *)
(***************************************************************************)
\* weeks / months navigated away from the mount date, either way
MaxNav == 2

\* the dashboard mounts on any day of 2024 (a leap year), at midnight, at
\* noon or in the last millisecond of the day
MountDays == NewDate(2024, 0, 1, 0).day .. NewDate(2024, 11, 31, 0).day
TimesOfDay == {0, MsPerDay \div 2, EndOfDay}
MountDates == {[day |-> n, ms |-> t] : n \in MountDays, t \in TimesOfDay}

\* requests stamped on both sides of month and week boundaries:
\* Wed 31 Jan 23:59:59.999, Thu 1 Feb 00:00:00.000, Thu 29 Feb 23:59:59.999,
\* Fri 1 Mar 00:00:00.000, Sun 3 Mar 23:59:59.999, Mon 4 Mar 00:00:00.000
StampedLog(id, date) ==
    MkLog(id, "Press1", "EQ-1", "Z01", "Pad-NFC", 1, 5, 5, GetTime(date), Null)

CalendarLogs ==
    << StampedLog("L1", NewDate(2024, 0, 31, EndOfDay)),
       StampedLog("L2", NewDate(2024, 1, 1, 0)),
       StampedLog("L3", NewDate(2024, 1, 29, EndOfDay)),
       StampedLog("L4", NewDate(2024, 2, 1, 0)),
       StampedLog("L5", NewDate(2024, 2, 3, EndOfDay)),
       StampedLog("L6", NewDate(2024, 2, 4, 0)) >>

CalendarInit ==
    /\ AggIdle
    /\ build = "local"
    /\ masterItems = Catalog0
    /\ requestLogs = CalendarLogs
    /\ error = Null
    /\ isLoading = FALSE
    /\ userMode = "admin"
    /\ FormBlank
    /\ dbItems = {} /\ dbLogs = {} /\ ops = <<>>
    /\ clock = 0 /\ uuidCount = 0 /\ failures = 0
    /\ isUpdateSuccessModalOpen = FALSE
    /\ CsvIdle
    /\ LockAtMount
    /\ lastMasterUpdate = NoDate
    /\ SideIdle
    /\ ListsAtMount
    /\ mountDate \in MountDates
    /\ currentWeekDate = mountDate
    /\ currentMonthDate = mountDate
    /\ weekOffset = 0
    /\ monthOffset = 0

ChangeWeek(weeks) ==
    /\ AdminMounted
    /\ weekOffset + weeks \in -MaxNav..MaxNav
    /\ currentWeekDate' = WeekStep(currentWeekDate, weeks)
    /\ weekOffset' = weekOffset + weeks
    /\ UNCHANGED <<currentMonthDate, mountDate, monthOffset>>
    /\ UNCHANGED <<isUpdateSuccessModalOpen, listVars, listTables, csvVars>>
    /\ UNCHANGED <<authVars, lastMasterUpdate, sideVars>>
    /\ UNCHANGED <<aggVars, appVars, formVars, remoteVars, envVars>>

ChangeMonth(months) ==
    /\ AdminMounted
    /\ monthOffset + months \in -MaxNav..MaxNav
    /\ currentMonthDate' = MonthStep(currentMonthDate, months)
    /\ monthOffset' = monthOffset + months
    /\ UNCHANGED <<currentWeekDate, mountDate, weekOffset>>
    /\ UNCHANGED <<isUpdateSuccessModalOpen, listVars, listTables, csvVars>>
    /\ UNCHANGED <<authVars, lastMasterUpdate, sideVars>>
    /\ UNCHANGED <<aggVars, appVars, formVars, remoteVars, envVars>>

CalendarNext ==
    \/ \E weeks \in {-1, 1} : ChangeWeek(weeks)
    \/ \E months \in {-1, 1} : ChangeMonth(months)

SpecCalendar == CalendarInit /\ [][CalendarNext]_vars

(***************************************************************************)
(* Catalog maintenance: imports and manual adds, no requests               *)
(***************************************************************************)
\* a file with the same id on two rows
FileTwice ==
    [empty |-> FALSE,
     parsed |-> <<MkItem("Z01", "Pad-NFC", 5), MkItem("Z01", "Washer", 9)>>]

CatalogFiles == {FileFull, FileTwice, FileNoRows, FileBlank}

\* a new id, an id of the first catalog, and that id in lower case
CatalogAdds ==
    {MkItem("Z02", "Bolt", 7), MkItem("Z01", "Washer", 9),
     MkItem("z01", "Pad-NFC", 5)}

CatalogNext ==
    \/ EnterAdmin
    \/ LeaveAdmin
    \/ \E file \in CatalogFiles : HandleFileChange(file)
    \/ \E i \in 1..Len(ops) : Onload(i)
    \/ \E newItem \in CatalogAdds : HandleAddItem(newItem)
    \/ CloseUpdateModal
    \/ \E i \in 1..Len(ops) : DbCommit(i)
    \/ \E i \in 1..Len(ops) : Continue(i)
    \/ \E i \in 1..Len(ops) : FetchItems(i)
    \/ \E i \in 1..Len(ops) : FetchLogs(i)
    \/ \E i \in 1..Len(ops) : FetchDone(i)

SpecCatalog == Init /\ [][CatalogNext]_vars

(***************************************************************************)
(* Reference lists: lines and equipment codes (App.tsx 221-283,            *)
(* part_005 161-171).  The local build keeps lines only.                   *)
(***************************************************************************)
\* handleAddLine of the local build: the value returned and the list left
AddLineReturn(names, newLine) ==
    IF \E k \in 1..Len(names) : ToLowerCase(names[k]) = ToLowerCase(newLine)
    THEN "duplicate"
    ELSE Null

AddedLines(names, newLine) ==
    IF AddLineReturn(names, newLine) = Null
    THEN Append(names, newLine)
    ELSE names

\* handleDeleteLine of the local build
RemovedLines(names, lineToDelete) ==
    SelectSeq(names, LAMBDA name : name # lineToDelete)

\* the requests the supabase build sends
ListOp(kind, name) == [Op(kind, "write") EXCEPT !.name = name]

\* what an add handler of the supabase build returns for each answer
AddNameMessage(result) ==
    CASE result = "ok"        -> Null
      [] result = "duplicate" -> "duplicate"
      [] OTHER                -> "failed"

HandleAddLine(newLine) ==
    /\ AdminMounted
    /\ IF build = "supabase"
       THEN /\ CanStart
            /\ ops' = Append(ops, ListOp("addLine", newLine))
            /\ UNCHANGED lines
       ELSE /\ lines' = AddedLines(lines, newLine)
            /\ UNCHANGED ops
    /\ UNCHANGED <<csvVars, dashVars, isUpdateSuccessModalOpen, equipmentCodes, listTables>>
    /\ UNCHANGED <<authVars, lastMasterUpdate, sideVars>>
    /\ UNCHANGED <<aggVars, appVars, formVars, dbItems, dbLogs, envVars>>

HandleDeleteLine(lineToDelete) ==
    /\ AdminMounted
    /\ IF build = "supabase"
       THEN /\ CanStart
            /\ ops' = Append(ops, ListOp("deleteLine", lineToDelete))
            /\ UNCHANGED lines
       ELSE /\ lines' = RemovedLines(lines, lineToDelete)
            /\ UNCHANGED ops
    /\ UNCHANGED <<csvVars, dashVars, isUpdateSuccessModalOpen, equipmentCodes, listTables>>
    /\ UNCHANGED <<authVars, lastMasterUpdate, sideVars>>
    /\ UNCHANGED <<aggVars, appVars, formVars, dbItems, dbLogs, envVars>>

HandleAddEquipmentCode(newCode) ==
    /\ AdminMounted
    /\ build = "supabase"
    /\ CanStart
    /\ ops' = Append(ops, ListOp("addCode", newCode))
    /\ UNCHANGED <<csvVars, dashVars, isUpdateSuccessModalOpen, listVars, listTables>>
    /\ UNCHANGED <<authVars, lastMasterUpdate, sideVars>>
    /\ UNCHANGED <<aggVars, appVars, formVars, dbItems, dbLogs, envVars>>

HandleDeleteEquipmentCode(codeToDelete) ==
    /\ AdminMounted
    /\ build = "supabase"
    /\ CanStart
    /\ ops' = Append(ops, ListOp("deleteCode", codeToDelete))
    /\ UNCHANGED <<csvVars, dashVars, isUpdateSuccessModalOpen, listVars, listTables>>
    /\ UNCHANGED <<authVars, lastMasterUpdate, sideVars>>
    /\ UNCHANGED <<aggVars, appVars, formVars, dbItems, dbLogs, envVars>>

\* names the administrator types: a listed one, the same in lower case, a
\* new one
LinePool == {"Press1", "press1", "Lathe"}
CodePool == {"EQ-1", "eq-1", "EQ-2"}

ListsNext ==
    \/ EnterAdmin
    \/ LeaveAdmin
    \/ \E newLine \in LinePool : HandleAddLine(newLine)
    \/ \E lineToDelete \in Range(lines) : HandleDeleteLine(lineToDelete)
    \/ \E newCode \in CodePool : HandleAddEquipmentCode(newCode)
    \/ \E codeToDelete \in Range(equipmentCodes) :
          HandleDeleteEquipmentCode(codeToDelete)
    \/ \E i \in 1..Len(ops) : DbCommit(i)
    \/ \E i \in 1..Len(ops) : Continue(i)
    \/ \E i \in 1..Len(ops) : FetchItems(i)
    \/ \E i \in 1..Len(ops) : FetchLogs(i)
    \/ \E i \in 1..Len(ops) : FetchDone(i)

SpecLists == Init /\ [][ListsNext]_vars

(***************************************************************************)
(* Claims about aggregateLogs, stated over the inputs and the returned     *)
(* rows of a finished run.                                                 *)
(***************************************************************************)
AggDone == aggPhase = "done"

InCatalog(log) == \E i \in 1..Len(aggItems) : aggItems[i].id = log.item_id

\* the logs of the input that belong to the group (item id, delivery date)
GroupOf(itemId, date) ==
    SelectSeq(aggLogs, LAMBDA l : l.item_id = itemId /\ l.desired_delivery_date = date)

RowGroup(row) == GroupOf(row.item.id, row.desired_delivery_date)

Quantities(logs) == [i \in 1..Len(logs) |-> logs[i].quantity]
Costs(logs) == [i \in 1..Len(logs) |-> logs[i].total_cost]
EntryQuantities(entries) == [i \in 1..Len(entries) |-> entries[i].quantity]

\* C1: no row refers to an item absent from the catalog, and the logs of
\* such items add to no row's totalQuantity, totalCost or breakdowns: the
\* totals over all rows are those of the logs whose item is in the catalog,
\* and the rows are the ones the same run gives without the orphaned logs.
C1_OrphansDropped ==
    AggDone =>
        LET kept == SelectSeq(aggLogs, InCatalog)
            withEq == SelectSeq(kept, LAMBDA l : l.equipment_code # Null)
        IN  /\ \A r \in Range(aggRows) : r.item \in Range(aggItems)
            /\ SumSeq([i \in 1..Len(aggRows) |-> aggRows[i].totalQuantity])
                   = SumSeq(Quantities(kept))
            /\ SumSeq([i \in 1..Len(aggRows) |-> aggRows[i].totalCost])
                   = SumSeq(Costs(kept))
            /\ SumSeq([i \in 1..Len(aggRows) |->
                          SumSeq(EntryQuantities(aggRows[i].requestsByLine))])
                   = SumSeq(Quantities(kept))
            /\ SumSeq([i \in 1..Len(aggRows) |->
                          SumSeq(EntryQuantities(aggRows[i].requestsByEquipment))])
                   = SumSeq(Quantities(withEq))
            /\ aggRows = aggregateLogs(kept, aggItems)

\* a finished run whose input mixes orphaned logs with logs of catalog items
C1_Witness ==
    /\ AggDone
    /\ aggRows # <<>>
    /\ \E i, j \in 1..Len(aggLogs) :
          i < j /\ ~InCatalog(aggLogs[i]) /\ InCatalog(aggLogs[j])

\* C2: the rows are in one-to-one correspondence with the distinct pairs
\* (item id, delivery date or none) among the logs whose item is in the
\* catalog; an empty input gives no row.
C2_OneRowPerGroup ==
    AggDone =>
        /\ {<<r.item.id, r.desired_delivery_date>> : r \in Range(aggRows)}
              = {<<l.item_id, l.desired_delivery_date>> :
                    l \in {x \in Range(aggLogs) : InCatalog(x)}}
        /\ \A i, j \in 1..Len(aggRows) :
              i # j => <<aggRows[i].item.id, aggRows[i].desired_delivery_date>>
                         # <<aggRows[j].item.id, aggRows[j].desired_delivery_date>>
        /\ (aggLogs = <<>> => aggRows = <<>>)

\* three logs, two of them in one group, the third differing only in the date
C2_Witness ==
    /\ AggDone
    /\ Len(aggLogs) = 3
    /\ Len(aggRows) = 2
    /\ aggLogs[1].item_id = aggLogs[2].item_id
    /\ aggLogs[2].item_id = aggLogs[3].item_id
    /\ aggLogs[1].desired_delivery_date = aggLogs[3].desired_delivery_date
    /\ aggLogs[1].desired_delivery_date # aggLogs[2].desired_delivery_date

\* C3: a row's totalQuantity and totalCost are the sums of quantity and of
\* the stored total_cost over exactly the logs of the row's group.
C3_TotalsAreSums ==
    AggDone =>
        \A r \in Range(aggRows) :
            /\ r.totalQuantity = SumSeq(Quantities(RowGroup(r)))
            /\ r.totalCost = SumSeq(Costs(RowGroup(r)))

\* a row of two or more logs whose total differs from catalog price x quantity
C3_Witness ==
    /\ AggDone
    /\ \E r \in Range(aggRows) :
          /\ Len(RowGroup(r)) >= 2
          /\ r.totalCost # r.item.price * r.totalQuantity

\* C4: rows are in name order; among rows whose names collate as equal a
\* dated row never follows an undated one and dated rows are in ascending
\* date order.
C4_RowOrder ==
    AggDone =>
        \A i, j \in 1..Len(aggRows) :
            i < j =>
                LET a == aggRows[i]
                    b == aggRows[j]
                IN  /\ CollationRank(a.item.name) <= CollationRank(b.item.name)
                    /\ CollationRank(a.item.name) = CollationRank(b.item.name) =>
                          /\ b.desired_delivery_date # Null => a.desired_delivery_date # Null
                          /\ (a.desired_delivery_date # Null /\ b.desired_delivery_date # Null)
                                => CollationRank(a.desired_delivery_date)
                                      <= CollationRank(b.desired_delivery_date)

\* the input starts with an undated log and a later-dated one; the rows come
\* out as earlier date, later date, undated, all under one name
C4_Witness ==
    /\ AggDone
    /\ Len(aggLogs) = 3
    /\ aggLogs[1].desired_delivery_date = Null
    /\ aggLogs[2].desired_delivery_date = "2024-01-02"
    /\ Len(aggRows) = 3
    /\ \A i \in 1..3 : CollationRank(aggRows[i].item.name) = CollationRank("Pad-NFC")
    /\ aggRows[1].desired_delivery_date = "2024-01-01"
    /\ aggRows[2].desired_delivery_date = "2024-01-02"
    /\ aggRows[3].desired_delivery_date = Null

\* positions in the input of the logs of the row's group
GroupPositions(row) ==
    {k \in 1..Len(aggLogs) : /\ aggLogs[k].item_id = row.item.id
                             /\ aggLogs[k].desired_delivery_date = row.desired_delivery_date}

\* position of the first log of the row's group on the given line / with the
\* given equipment code
FirstOnLine(row, ln) == FirstIndex({k \in GroupPositions(row) : aggLogs[k].line = ln})
FirstWithCode(row, code) ==
    FirstIndex({k \in GroupPositions(row) : aggLogs[k].equipment_code = code})

\* C5: both breakdowns have pairwise distinct keys in order of first
\* encounter, each key's quantity is the sum over the group's logs with that
\* key, logs without an equipment code add to no equipment entry, the line
\* quantities sum to totalQuantity and the equipment quantities to at most it.
C5_Breakdowns ==
    AggDone =>
        \A r \in Range(aggRows) :
            LET byLine == r.requestsByLine
                byEq == r.requestsByEquipment
                group == RowGroup(r)
            IN  /\ \A i, j \in 1..Len(byLine) : i # j => byLine[i].line # byLine[j].line
                /\ \A i, j \in 1..Len(byEq) : i # j => byEq[i].code # byEq[j].code
                /\ {byLine[i].line : i \in 1..Len(byLine)} = {l.line : l \in Range(group)}
                /\ {byEq[i].code : i \in 1..Len(byEq)}
                      = {l.equipment_code : l \in {x \in Range(group) : x.equipment_code # Null}}
                /\ \A i, j \in 1..Len(byLine) :
                      i < j => FirstOnLine(r, byLine[i].line) < FirstOnLine(r, byLine[j].line)
                /\ \A i, j \in 1..Len(byEq) :
                      i < j => FirstWithCode(r, byEq[i].code) < FirstWithCode(r, byEq[j].code)
                /\ \A i \in 1..Len(byLine) :
                      byLine[i].quantity
                         = SumSeq(Quantities(SelectSeq(group, LAMBDA l : l.line = byLine[i].line)))
                /\ \A i \in 1..Len(byEq) :
                      byEq[i].quantity
                         = SumSeq(Quantities(SelectSeq(group,
                                      LAMBDA l : l.equipment_code = byEq[i].code)))
                /\ SumSeq(EntryQuantities(byLine)) = r.totalQuantity
                /\ SumSeq(EntryQuantities(byEq)) <= r.totalQuantity

\* one group of three logs: a line met twice, a second line, two equipment
\* codes and a log without one
C5_Witness ==
    /\ AggDone
    /\ \E r \in Range(aggRows) :
          /\ Len(RowGroup(r)) = 3
          /\ Len(r.requestsByLine) = 2
          /\ r.requestsByLine[1].quantity = 2
          /\ Len(r.requestsByEquipment) = 2
          /\ SumSeq(EntryQuantities(r.requestsByEquipment)) < r.totalQuantity

(***************************************************************************)
(* Claims about the request form and request submission (SpecForm)         *)
(***************************************************************************)
\* the step is RequestForm.handleSubmit passing its guard
SubmitStep == formEvent' = "submitted" /\ cart # <<>>

\* the logs the step handed to the log store: the rows of the insert request
\* (supabase build) or the logs put in front of requestLogs (local build)
NewBatch ==
    IF build = "supabase"
    THEN ops'[Len(ops')].logs
    ELSE SubSeq(requestLogs', 1, Len(requestLogs') - Len(requestLogs))

\* each log carries its own cart entry
CarriesEntries(batch) ==
    /\ Len(batch) = Len(cart)
    /\ \A k \in 1..Len(batch) :
          /\ batch[k].item_id = cart[k].item.id
          /\ batch[k].item_name = FindItem(masterItems, cart[k].item.id).name
          /\ batch[k].quantity = cart[k].quantity
          /\ batch[k].total_cost = cart[k].item.price * cart[k].quantity
          /\ batch[k].line = line
          /\ batch[k].equipment_code = OrNull(equipmentCode)
          /\ batch[k].desired_delivery_date = OrNull(desiredDate)

\* C6: a submission with a non-empty cart and a selected line produces exactly
\* one log per cart entry; all logs of the batch share the same timestamp,
\* line, equipment code and desired delivery date; each log carries its cart
\* entry's item id, the item's name, the entry's quantity and total cost =
\* item price x quantity.
C6_SubmitBatch ==
    [][SubmitStep =>
          /\ line # ""
          /\ CarriesEntries(NewBatch)
          /\ \A k \in 1..Len(NewBatch) : NewBatch[k].timestamp = NewBatch[1].timestamp
      ]_vars

\* the rest of C6, which both builds meet: everything but the shared timestamp
C6_SubmitBatchFields ==
    [][SubmitStep => line # "" /\ CarriesEntries(NewBatch)]_vars

\* a batch of two logs is on its way to the log store
C6_Witness ==
    \/ build = "local" /\ Len(requestLogs) = 2
    \/ build = "supabase" /\ \E i \in 1..Len(ops) :
          ops[i].kind = "submit" /\ ops[i].stage = "write" /\ Len(ops[i].logs) = 2

\* the step calls onSubmit: a request is started (supabase build) or
\* requestLogs grows (local build)
SubmitCalled ==
    IF build = "supabase" THEN Len(ops') > Len(ops) ELSE requestLogs' # requestLogs

\* the step is RequestForm.handleSubmit failing its guard
RejectStep == formEvent' = "rejected" /\ formEvent # "rejected"

\* C7: submitting while the cart is empty or no line is selected is rejected:
\* onSubmit is not called, no log is added to the log store, and cart, line,
\* equipment code and date stay as they are.
C7_RejectedSubmit ==
    [][/\ (cart = <<>> \/ line = "") =>
             /\ ~SubmitCalled
             /\ ~(formEvent' = "submitted" /\ formEvent # "submitted")
       /\ RejectStep =>
             /\ cart = <<>> \/ line = ""
             /\ UNCHANGED <<cart, line, equipmentCode, desiredDate>>
             /\ UNCHANGED <<requestLogs, dbLogs, ops, uuidCount>>
      ]_vars

\* a submission was rejected with items in the cart, a code and a date entered
\* but no line selected
C7_Witness ==
    /\ formEvent = "rejected"
    /\ cart # <<>> /\ line = ""
    /\ desiredDate # ""

(***************************************************************************)
(* Claims about the log store over the App's life (Spec)                   *)
(***************************************************************************)
\* the unit price of a log at an edit: the catalog price of its item, or for
\* an item no longer in the catalog the unit price the log was last written at
UnitPriceFor(log) ==
    IF HasItem(masterItems, log.item_id)
    THEN FindItem(masterItems, log.item_id).price
    ELSE log.unit_price

\* a log after an edit of its quantity to q: nothing else but the cost changes
Edited(log, q, unitPrice) ==
    [log EXCEPT !.quantity = q, !.total_cost = unitPrice * q, !.unit_price = unitPrice]

\* the logs in memory after an edit of log logId to q
EditedLogs(logId, q) ==
    [k \in 1..Len(requestLogs) |->
        IF requestLogs[k].id = logId
        THEN Edited(requestLogs[k], q, UnitPriceFor(requestLogs[k]))
        ELSE requestLogs[k]]

\* what the edit handler does with each listed log and each q > 0
EditContract ==
    AdminMounted =>
        \A logId \in LogIds, q \in 1..MaxQty :
            IF build = "local"
            THEN UpdatedLogs(requestLogs, masterItems, logId, q) = EditedLogs(logId, q)
            ELSE LET req == UpdateRequest(requestLogs, masterItems, logId, q)
                 IN  /\ req.logId = logId
                     /\ req.quantity = q
                     /\ req.total_cost = UnitPriceFor(FirstLog(requestLogs, logId)) * q

\* what an update request does to the table and, once answered, to the logs
\* in memory
EditApplied ==
    \A i \in 1..Len(ops) :
        LET op == ops[i]
        IN  /\ (op.kind = "updateLog" /\ DbCommit(i) /\ ops'[i].result = "ok") =>
                  dbLogs' = {IF l.id = op.logId
                             THEN Edited(l, op.quantity, op.unit_price)
                             ELSE l : l \in dbLogs}
            /\ (op.kind = "updateLog" /\ op.result = "ok" /\ Continue(i)) =>
                  requestLogs' = [k \in 1..Len(requestLogs) |->
                                     IF requestLogs[k].id = op.logId
                                     THEN Edited(requestLogs[k], op.quantity, op.unit_price)
                                     ELSE requestLogs[k]]

\* C8: an admin edit of a log's quantity to q > 0 sets that log's quantity to
\* q and its total cost to unit price x q, and leaves that log's id, item id,
\* item name, line, timestamp and delivery date, and every other log, unchanged.
C8_EditSetsQuantityAndCost == []EditContract /\ [][EditApplied]_vars

\* the logs held by the log store: the table and the copy in memory
StoredLogSet == dbLogs \cup Range(requestLogs)

CostIsQuantityTimesUnitPrice ==
    \A l \in StoredLogSet : l.total_cost = l.quantity * l.unit_price

\* some log keeps its quantity while its total cost changes
CostAloneChanges ==
    \/ /\ Len(requestLogs') = Len(requestLogs)
       /\ \E k \in 1..Len(requestLogs) :
             /\ requestLogs'[k].id = requestLogs[k].id
             /\ requestLogs'[k].total_cost # requestLogs[k].total_cost
             /\ requestLogs'[k].quantity = requestLogs[k].quantity
    \/ \E a \in dbLogs, b \in dbLogs' :
          a.id = b.id /\ b.total_cost # a.total_cost /\ b.quantity = a.quantity

\* C9: in every reachable state each stored log's total cost equals its
\* quantity times the unit price used at the most recent submit or edit of
\* that log, and no operation changes a total cost without changing the
\* quantity in the same step.
C9_CostFollowsQuantity ==
    []CostIsQuantityTimesUnitPrice /\ [][~CostAloneChanges]_vars

\* some stored log's quantity or total cost changes
CostOrQuantityChanges ==
    \/ /\ Len(requestLogs') = Len(requestLogs)
       /\ \E k \in 1..Len(requestLogs) :
             /\ requestLogs'[k].id = requestLogs[k].id
             /\ \/ requestLogs'[k].total_cost # requestLogs[k].total_cost
                \/ requestLogs'[k].quantity # requestLogs[k].quantity
    \/ \E a \in dbLogs, b \in dbLogs' :
          a.id = b.id /\ (b.total_cost # a.total_cost \/ b.quantity # a.quantity)

\* the step is the edit handler or one of its requests writing a quantity > 0
\* together with the total cost at the unit price it read
EditWrites ==
    \/ \E logId \in LogIds, q \in 1..MaxQty :
          build = "local" /\ HandleSaveEdit(logId, q)
    \/ \E i \in 1..Len(ops) :
          /\ ops[i].kind = "updateLog"
          /\ ops[i].quantity > 0
          /\ ops[i].total_cost = ops[i].quantity * ops[i].unit_price
          /\ DbCommit(i) \/ Continue(i)

\* the step is fetchData replacing the logs in memory by the rows it read
Refreshes == \E i \in 1..Len(ops) : ops[i].result = "ok" /\ FetchDone(i)

\* C9 amended: in every reachable state each stored log's total cost equals
\* its quantity times the unit price used at the most recent submit or edit
\* of that log, and a stored log's quantity or total cost is changed only by
\* a quantity edit, which writes both (an edit that saves the quantity the
\* log already has re-prices it at the current unit price), or in memory by
\* a refresh from the table.
C9_CostWrittenWithQuantity ==
    /\ []CostIsQuantityTimesUnitPrice
    /\ [][CostOrQuantityChanges => EditWrites \/ Refreshes]_vars

\* a log submitted as "Pad-NFC" was edited after the item was re-priced to 9
C9_Witness ==
    \E l \in StoredLogSet :
        l.item_name = "Pad-NFC" /\ l.unit_price = 9 /\ l.total_cost = 9 * l.quantity

\* two aggregations give every group they both hold the same totals
TotalsAgree(rowsA, rowsB) ==
    \A i \in 1..Len(rowsA), j \in 1..Len(rowsB) :
        (/\ rowsA[i].item.id = rowsB[j].item.id
         /\ rowsA[i].desired_delivery_date = rowsB[j].desired_delivery_date)
        => /\ rowsA[i].totalCost = rowsB[j].totalCost
           /\ rowsA[i].totalQuantity = rowsB[j].totalQuantity

QuantityTexts ==
    {<<Digits[n + 1]>> : n \in 0..MaxQty}
        \cup {<<>>, <<"-", "2">>, <<"2", ".", "7">>, <<".", "5">>}

\* parseInt(s, 10): an optional sign, then the longest prefix of digits;
\* NaN when there is no digit at the front
ParseInt(s) ==
    LET signed == s # <<>> /\ s[1] \in {"-", "+"}
        t == IF signed THEN Tail(s) ELSE s
        n == IF \A i \in 1..Len(t) : IsDigit(t[i]) THEN Len(t)
             ELSE (CHOOSE i \in 1..Len(t) :
                      /\ ~IsDigit(t[i])
                      /\ \A j \in 1..(i - 1) : IsDigit(t[j])) - 1
        magnitude == Decimal(SubSeq(t, 1, n))
    IN  IF n = 0 THEN NaN
        ELSE Finite(IF signed /\ s[1] = "-" THEN 0 - magnitude ELSE magnitude)

\* x > 0 on numbers: false for NaN and for null
Positive(x) == x.kind = "Infinity" \/ (x.kind = "finite" /\ x.value > 0)

\* Math.max(1, newQuantity): NaN when the argument is NaN
MaxOne(newQuantity) ==
    IF newQuantity.kind = "NaN" THEN NaN
    ELSE IF newQuantity.kind = "finite" /\ newQuantity.value < 1
         THEN Finite(1)
         ELSE newQuantity

\* handleQuantityChange(itemId, newQuantity): the quantity put in the cart
UpdatedQuantity(newQuantity) == MaxOne(newQuantity)

\* onChange of the cart input
CartTyped(text) ==
    UpdatedQuantity(IF text # <<>> THEN ParseInt(text) ELSE Finite(1))

\* quantity + d of the two buttons
Plus(x, d) == IF x.kind = "finite" THEN Finite(x.value + d) ELSE x

\* onChange of the edit input: parseInt(e.target.value, 10) || 0
EditTyped(text) ==
    LET parsed == ParseInt(text)
    IN  IF parsed.kind = "NaN" \/ parsed = Finite(0) THEN Finite(0) ELSE parsed

\* JSON null, as JSON.stringify writes NaN in a request body
NullNumber == [kind |-> "null", value |-> 0]

QtyFrame ==
    /\ UNCHANGED <<build, masterItems, requestLogs, error, isLoading, userMode>>
    /\ UNCHANGED <<dashVars, isUpdateSuccessModalOpen, listVars, listTables>>
    /\ UNCHANGED <<csvVars, authVars, lastMasterUpdate, exportVars>>
    /\ UNCHANGED <<inFlightLimit, aggVars, formVars, remoteVars, envVars>>

TypeQuantity(text) ==
    /\ qtyPhase.screen = "form"
    /\ cartQuantity' = CartTyped(text)
    /\ UNCHANGED <<editingQty, logQuantity, qtyPhase>>
    /\ QtyFrame

StepQuantity(d) ==
    /\ qtyPhase.screen = "form"
    /\ cartQuantity.kind = "finite" => cartQuantity.value + d <= MaxQty
    /\ cartQuantity' = UpdatedQuantity(Plus(cartQuantity, d))
    /\ UNCHANGED <<editingQty, logQuantity, qtyPhase>>
    /\ QtyFrame

\* RequestForm.handleSubmit and handleRequestSubmit: the local-state build
\* stores cartItem.quantity; the supabase build sends it as JSON, and a
\* table whose schema is not in the sources stores the null or refuses it
SubmitCart ==
    /\ qtyPhase.screen = "form"
    /\ Len(logQuantity) < MaxLogs
    /\ IF build = "local" \/ cartQuantity.kind = "finite"
       THEN logQuantity' = <<cartQuantity>> \o logQuantity
       ELSE \/ logQuantity' = <<NullNumber>> \o logQuantity
            \/ logQuantity' = logQuantity
    /\ cartQuantity' = Finite(1)
    /\ UNCHANGED <<editingQty, qtyPhase>>
    /\ QtyFrame

\* the header buttons between the request form and the log table
ShowLogTable ==
    /\ qtyPhase.screen = "form"
    /\ qtyPhase' = QtyPhase("admin", 0)
    /\ cartQuantity' = Finite(1)
    /\ UNCHANGED <<editingQty, logQuantity>>
    /\ QtyFrame

ShowRequestForm ==
    /\ qtyPhase.screen = "admin"
    /\ qtyPhase' = QtyPhase("form", 0)
    /\ editingQty' = Finite(0)
    /\ UNCHANGED <<cartQuantity, logQuantity>>
    /\ QtyFrame

HandleEditClick(k) ==
    /\ qtyPhase.screen = "admin"
    /\ k \in 1..Len(logQuantity)
    /\ qtyPhase' = QtyPhase("admin", k)
    /\ editingQty' = logQuantity[k]
    /\ UNCHANGED <<cartQuantity, logQuantity>>
    /\ QtyFrame

TypeEdit(text) ==
    /\ qtyPhase.screen = "admin"
    /\ qtyPhase.editingLogId # 0
    /\ editingQty' = EditTyped(text)
    /\ UNCHANGED <<cartQuantity, logQuantity, qtyPhase>>
    /\ QtyFrame

\* handleSaveEdit with the quantity in the edit input, and through it
\* handleUpdateLogQuantity (App.tsx 339-366, part_005 199-213)
SaveTypedEdit ==
    /\ qtyPhase.screen = "admin"
    /\ qtyPhase.editingLogId # 0
    /\ IF Positive(editingQty)
       THEN /\ logQuantity' =
                  [logQuantity EXCEPT ![qtyPhase.editingLogId] = editingQty]
            /\ qtyPhase' = QtyPhase("admin", 0)
            /\ editingQty' = Finite(0)
       ELSE UNCHANGED <<logQuantity, qtyPhase, editingQty>>
    /\ UNCHANGED cartQuantity
    /\ QtyFrame

HandleCancelEdit ==
    /\ qtyPhase.screen = "admin"
    /\ qtyPhase.editingLogId # 0
    /\ qtyPhase' = QtyPhase("admin", 0)
    /\ editingQty' = Finite(0)
    /\ UNCHANGED <<cartQuantity, logQuantity>>
    /\ QtyFrame

QuantityInit ==
    /\ AggIdle
    /\ build \in Builds
    /\ masterItems = <<>> /\ requestLogs = <<>>
    /\ error = Null /\ isLoading = FALSE /\ userMode = "general"
    /\ cart = <<>> /\ line = "" /\ equipmentCode = "" /\ desiredDate = ""
    /\ formEvent = "none"
    /\ dbItems = {} /\ dbLogs = {} /\ ops = <<>>
    /\ clock = 0 /\ uuidCount = 0 /\ failures = 0
    /\ DashIdle /\ isUpdateSuccessModalOpen = FALSE /\ ListsIdle /\ CsvIdle
    /\ LockAtMount /\ lastMasterUpdate = NoDate
    /\ ExportIdle /\ inFlightLimit = MaxInFlight
    /\ cartQuantity = Finite(1) /\ editingQty = Finite(0)
    /\ logQuantity = <<>>
    /\ qtyPhase = QtyPhase("form", 0)

QuantityNext ==
    \/ \E text \in QuantityTexts : TypeQuantity(text)
    \/ \E d \in {-1, 1} : StepQuantity(d)
    \/ SubmitCart
    \/ ShowLogTable
    \/ ShowRequestForm
    \/ \E k \in 1..Len(logQuantity) : HandleEditClick(k)
    \/ \E text \in QuantityTexts : TypeEdit(text)
    \/ SaveTypedEdit
    \/ HandleCancelEdit

SpecQuantity == QuantityInit /\ [][QuantityNext]_vars

(***************************************************************************)
(* The admin lock (App.tsx 172-202, PasswordModal, PasswordManager)        *)
(***************************************************************************)
\* passwords typed into the modal and the change form; the empty text is
\* a field left blank
Passwords == {"0000", "YSP2025", "1111", "a b"}
PasswordFields == Passwords \cup {""}

\* everything the lock handlers leave alone
LockFrame ==
    /\ UNCHANGED <<build, masterItems, requestLogs, error, isLoading>>
    /\ UNCHANGED <<dashVars, isUpdateSuccessModalOpen, listVars, listTables>>
    /\ UNCHANGED <<csvVars, lastMasterUpdate, sideVars>>
    /\ UNCHANGED <<aggVars, remoteVars, envVars>>

\* handleModeChange(mode): the header buttons stay reachable by keyboard
\* while a dialog is shown
HandleModeChange(mode) ==
    /\ IF mode = "admin"
         THEN IF isAdminAuthenticated
                THEN /\ userMode' = "admin"
                     /\ UNCHANGED <<isAdminAuthenticated, isPasswordModalOpen>>
                ELSE /\ isPasswordModalOpen' = TRUE
                     /\ UNCHANGED <<userMode, isAdminAuthenticated>>
         ELSE /\ userMode' = "general"
              /\ isAdminAuthenticated' = FALSE
              /\ UNCHANGED isPasswordModalOpen
    /\ authEvent' = AuthEvent("mode", "", FALSE)
    /\ IF userMode' # userMode THEN FormReset ELSE UNCHANGED formVars
    /\ UNCHANGED <<adminPassword, storedPassword>>
    /\ LockFrame

\* password === adminPassword
PasswordAcceptedAny(password) == TRUE
PasswordAccepted(password) == password = adminPassword

\* PasswordModal.handleSubmit calling handlePasswordSubmit(password)
HandlePasswordSubmit(password) ==
    /\ isPasswordModalOpen
    /\ IF PasswordAccepted(password)
         THEN /\ isAdminAuthenticated' = TRUE
              /\ userMode' = "admin"
              /\ isPasswordModalOpen' = FALSE
         ELSE UNCHANGED <<isAdminAuthenticated, userMode, isPasswordModalOpen>>
    /\ authEvent' = AuthEvent("submit", password, PasswordAccepted(password))
    /\ IF userMode' # userMode THEN FormReset ELSE UNCHANGED formVars
    /\ UNCHANGED <<adminPassword, storedPassword>>
    /\ LockFrame

\* onClose of the PasswordModal (overlay click or the cancel button)
ClosePasswordModal ==
    /\ isPasswordModalOpen
    /\ isPasswordModalOpen' = FALSE
    /\ authEvent' = AuthEvent("close", "", FALSE)
    /\ UNCHANGED <<userMode, isAdminAuthenticated, adminPassword, storedPassword>>
    /\ UNCHANGED formVars
    /\ LockFrame

\* the checks of PasswordManager.handleSubmit before it calls onSave
FieldsError(oldPassword, newPassword, confirmPassword) ==
    IF oldPassword = "" \/ newPassword = "" \/ confirmPassword = ""
      THEN "fields"
      ELSE IF newPassword # confirmPassword THEN "confirm" ELSE Null

\* the message handlePasswordChange returns (null when it saved)
PasswordChangeNoCheck(oldPass) == Null
PasswordChangeError(oldPass) ==
    IF oldPass # adminPassword THEN "mismatch" ELSE Null

\* PasswordManager.handleSubmit and, through onSave, handlePasswordChange
HandlePasswordChange(oldPassword, newPassword, confirmPassword) ==
    /\ userMode = "admin"
    /\ ~isLoading
    /\ NoDialog
    /\ LET saved == /\ FieldsError(oldPassword, newPassword,
                                   confirmPassword) = Null
                    /\ PasswordChangeError(oldPassword) = Null
       IN  /\ adminPassword' = IF saved THEN newPassword ELSE adminPassword
           /\ storedPassword' = IF saved THEN newPassword ELSE storedPassword
           /\ authEvent' = AuthEvent("change", oldPassword, saved)
    /\ UNCHANGED <<userMode, isAdminAuthenticated, isPasswordModalOpen>>
    /\ UNCHANGED formVars
    /\ LockFrame

\* an App mounted in a browser that may hold a password saved earlier
AuthInit ==
    /\ AggIdle
    /\ build \in Builds
    /\ masterItems = <<>> /\ requestLogs = <<>>
    /\ error = Null /\ isLoading = FALSE /\ userMode = "general"
    /\ cart = <<>> /\ line = "" /\ equipmentCode = "" /\ desiredDate = ""
    /\ formEvent = "none"
    /\ dbItems = {} /\ dbLogs = {} /\ ops = <<>>
    /\ clock = 0 /\ uuidCount = 0 /\ failures = 0
    /\ DashIdle /\ isUpdateSuccessModalOpen = FALSE /\ ListsIdle /\ CsvIdle
    /\ \E password \in {DefaultPassword(build)} \cup Passwords :
           LockWith(password)
    /\ lastMasterUpdate = NoDate
    /\ SideIdle

AuthNext ==
    \/ \E mode \in {"general", "admin"} : HandleModeChange(mode)
    \/ \E password \in PasswordFields : HandlePasswordSubmit(password)
    \/ ClosePasswordModal
    \/ \E oldPassword, newPassword, confirmPassword \in PasswordFields :
           HandlePasswordChange(oldPassword, newPassword, confirmPassword)

SpecAuth == AuthInit /\ [][AuthNext]_vars

(***************************************************************************)
(* The CSV parser on enumerated files.  A file row is written from its     *)
(* fields: an unquoted field is written as it is, a quoted field between   *)
(* double quotes with its inner quotes doubled; fields are joined by       *)
(* commas.  The parser only sees the text.                                 *)
(***************************************************************************)
MaxFields == 3
MaxCsvRows == 2

Plain(value) == [value |-> value, quoted |-> FALSE]
Quoted(value) == [value |-> value, quoted |-> TRUE]

RECURSIVE EscapeQuotes(_)
EscapeQuotes(s) ==
    IF s = <<>> THEN <<>>
    ELSE (IF Head(s) = Quote THEN <<Quote, Quote>> ELSE <<Head(s)>>)
         \o EscapeQuotes(Tail(s))

WriteField(f) ==
    IF f.quoted THEN <<Quote>> \o EscapeQuotes(f.value) \o <<Quote>>
    ELSE f.value

RECURSIVE WriteRow(_)
WriteRow(fields) ==
    IF fields = <<>> THEN <<>>
    ELSE IF Len(fields) = 1 THEN WriteField(fields[1])
    ELSE WriteRow(SubSeq(fields, 1, Len(fields) - 1))
         \o <<Comma>> \o WriteField(fields[Len(fields)])

\* text.split(/\r?\n/).slice(1): the text of the data rows
RowTexts(file) == [r \in 1..Len(file) |-> WriteRow(file[r])]

\* the fields rows are written from: unquoted ones without a comma, some
\* with white space or double quotes, and quoted ones of any content
PlainFields ==
    { Plain(<<"a">>), Plain(<<>>), Plain(<<Space, "a">>),
      Plain(<<"a", Quote>>), Plain(<<"a", Quote, Quote, "b">>) }
QuotedFields ==
    { Quoted(<<"a", Comma, "b">>), Quoted(<<Comma>>), Quoted(<<>>),
      Quoted(<<"a", Quote, "b">>), Quoted(<<Quote, Comma>>),
      Quoted(<<Space, "a", Space>>) }
FieldPool == PlainFields \cup QuotedFields

\* catalog rows: one that has everything, and rows that differ from it in
\* the id, the name, the price or the number of columns
GoodRow ==
    << Plain(<<"Z", "9">>), Plain(<<"S">>), Plain(<<"P", "a", "d">>),
       Plain(<<"m">>), Plain(<<"E">>), Plain(<<"1", "2">>) >>
WithField(row, k, f) == [row EXCEPT ![k] = f]
RowPool ==
    { GoodRow,
      <<>>,
      SubSeq(GoodRow, 1, 5),
      GoodRow \o <<Plain(<<"x">>)>>,
      WithField(GoodRow, 1, Plain(<<>>)),
      WithField(GoodRow, 1, Quoted(<<Space>>)),
      WithField(GoodRow, 3, Plain(<<Space>>)),
      WithField(GoodRow, 6, Quoted(<<"1", Comma, "2", "0", "0">>)),
      WithField(GoodRow, 6, Plain(<<"a">>)),
      WithField(GoodRow, 6, Plain(<<>>)),
      WithField(GoodRow, 6, Plain(InfinityWord)) }

CsvInit == AggIdle /\ AppIdle

\* one more field on the only row of the file
CsvAddField(f) ==
    /\ csvPhase \in {"idle", "input"}
    /\ Len(csvFile) <= 1
    /\ \/ csvFile = <<>> /\ csvFile' = << <<f>> >>
       \/ /\ Len(csvFile) = 1
          /\ Len(csvFile[1]) < MaxFields
          /\ csvFile' = << Append(csvFile[1], f) >>
    /\ csvPhase' = "input"
    /\ UNCHANGED <<csvTrace, parsedItems>>
    /\ UNCHANGED <<aggVars, appVars, formVars, dbItems, dbLogs, envVars>>
    /\ UNCHANGED <<ops, dashVars, isUpdateSuccessModalOpen, listVars, listTables>>
    /\ UNCHANGED <<authVars, lastMasterUpdate, sideVars>>

\* one more row on the file
CsvAddRow(row) ==
    /\ csvPhase \in {"idle", "input"}
    /\ Len(csvFile) < MaxCsvRows
    /\ csvFile' = Append(csvFile, row)
    /\ csvPhase' = "input"
    /\ UNCHANGED <<csvTrace, parsedItems>>
    /\ UNCHANGED <<aggVars, appVars, formVars, dbItems, dbLogs, envVars>>
    /\ UNCHANGED <<ops, dashVars, isUpdateSuccessModalOpen, listVars, listTables>>
    /\ UNCHANGED <<authVars, lastMasterUpdate, sideVars>>

\* rows.forEach (App.tsx 116-141): parsedItems, and for each row the columns
\* it was split into (none for a blank row, which returns before the split)
\* and the items it pushed
CsvParse ==
    /\ csvPhase = "input"
    /\ LET rows == RowTexts(csvFile)
       IN  /\ csvTrace' =
                [r \in 1..Len(rows) |->
                    [columns |-> IF Trim(rows[r]) = <<>> THEN <<>>
                                 ELSE Columns(rows[r]),
                     items   |-> ParsedRow(rows[r])]]
           /\ parsedItems' = ParsedItems(rows)
    /\ csvPhase' = "parsed"
    /\ UNCHANGED csvFile
    /\ UNCHANGED <<aggVars, appVars, formVars, dbItems, dbLogs, envVars>>
    /\ UNCHANGED <<ops, dashVars, isUpdateSuccessModalOpen, listVars, listTables>>
    /\ UNCHANGED <<authVars, lastMasterUpdate, sideVars>>

CsvSplitNext ==
    \/ \E f \in FieldPool : CsvAddField(f)
    \/ CsvParse

SpecCsvSplit == CsvInit /\ [][CsvSplitNext]_vars

CsvRowsNext ==
    \/ \E row \in RowPool : CsvAddRow(row)
    \/ CsvParse

SpecCsvRows == CsvInit /\ [][CsvRowsNext]_vars


(***************************************************************************)
(* handleDownload (components/AdminDashboard.tsx 217-247, part_003         *)
(* 192-221).  Texts are sequences of one-character strings; the header     *)
(* names are written as one chunk each.                                    *)
(***************************************************************************)
MaxExportRows == 2
LineFeed == "\n"
Semicolon == ";"

\* .join(sep)
RECURSIVE Join(_, _)
Join(parts, sep) ==
    IF parts = <<>> THEN <<>>
    ELSE IF Len(parts) = 1 THEN parts[1]
    ELSE parts[1] \o sep \o Join(Tail(parts), sep)

\* String(n) of a natural number
RECURSIVE NumberText(_)
NumberText(n) ==
    IF n < 10 THEN <<Digits[n + 1]>>
    ELSE NumberText(n \div 10) \o <<Digits[(n % 10) + 1]>>

\* `"${x.replace(/"/g, '""')}"`
RECURSIVE ReplaceQuotes(_)
ReplaceQuotes(x) ==
    IF x = <<>> THEN <<>>
    ELSE (IF Head(x) = Quote THEN <<Quote, Quote>> ELSE <<Head(x)>>)
         \o ReplaceQuotes(Tail(x))
Wrapped(x) == <<Quote>> \o ReplaceQuotes(x) \o <<Quote>>

\* `${r.line}(${r.quantity})`
BreakdownPart(r) == r.label \o <<"(">> \o NumberText(r.quantity) \o <<")">>

\* requestsByLine.map(...).join('; ')
BreakdownText(requests) ==
    Join([k \in 1..Len(requests) |-> BreakdownPart(requests[k])],
         <<Semicolon, Space>>)

\* `"${...}"` around a breakdown: the text between two quotes, as it is
BreakdownField(requests) == <<Quote>> \o BreakdownText(requests) \o <<Quote>>

\* the header names: item id, supplier, name, specification, unit, price,
\* desired delivery date, total quantity, total cost, quantity per line and
\* (supabase build) quantity per equipment code
Headers(b) ==
    <<<<"id">>, <<"supplier">>, <<"name">>, <<"specification">>, <<"unit">>,
      <<"price">>, <<"desired_delivery_date">>, <<"totalQuantity">>,
      <<"totalCost">>, <<"requestsByLine">>>>
    \o (IF b = "supabase" THEN <<<<"requestsByEquipment">>>> ELSE <<>>)

\* the array built for one row, before .join(',')
RowFields(b, row) ==
    <<row.item.id,
      Wrapped(row.item.supplier),
      Wrapped(row.item.name),
      Wrapped(row.item.specification),
      Wrapped(row.item.unit),
      NumberText(row.item.price),
      row.desired_delivery_date,
      NumberText(row.totalQuantity),
      NumberText(row.totalCost),
      BreakdownField(row.requestsByLine)>>
    \o (IF b = "supabase"
        THEN <<BreakdownField(row.requestsByEquipment)>> ELSE <<>>)

\* [headers.join(','), ...rows].join('\n')
CsvContent(b, rows) ==
    Join(<<Join(Headers(b), <<Comma>>)>>
         \o [k \in 1..Len(rows) |-> Join(RowFields(b, rows[k]), <<Comma>>)],
         <<LineFeed>>)

\* the text handed to the browser: none when there are no rows
Downloaded(b, rows) == IF Len(rows) = 0 THEN <<>> ELSE CsvContent(b, rows)

\* the lines of a text
RECURSIVE TextLines(_)
TextLines(text) ==
    IF \A i \in 1..Len(text) : text[i] # LineFeed THEN <<text>>
    ELSE LET i == CHOOSE i \in 1..Len(text) :
                     /\ text[i] = LineFeed
                     /\ \A j \in 1..(i - 1) : text[j] # LineFeed
         IN  <<SubSeq(text, 1, i - 1)>>
             \o TextLines(SubSeq(text, i + 1, Len(text)))

\* aggregation rows as aggregateLogs builds them: one catalog item, the
\* logs of one delivery date added up per line and per equipment code
Request(label, quantity) == [label |-> label, quantity |-> quantity]
ExportItem(id, supplier) ==
    [id |-> id, supplier |-> supplier, name |-> <<"P", "a", "d">>,
     specification |-> <<"1", "0", "m", "m">>, unit |-> <<"E", "A">>,
     price |-> 5]
ExportRow(item, requestsByLine, requestsByEquipment) ==
    LET total == SumSeq([k \in 1..Len(requestsByLine) |->
                            requestsByLine[k].quantity])
    IN  [item |-> item,
         desired_delivery_date |->
             <<"2", "0", "2", "4", "-", "0", "1", "-", "0", "1">>,
         totalQuantity |-> total,
         totalCost |-> item.price * total,
         requestsByLine |-> requestsByLine,
         requestsByEquipment |-> requestsByEquipment]

ExportIds == {<<"Z", "0", "1">>, <<"A", Comma, "1">>}
ExportSuppliers == {<<"A", "C">>, <<"A", Comma, Quote, "C">>}
Press1 == <<"P", "1">>
ExportLines ==
    {<<Request(Press1, 2)>>,
     <<Request(<<"7", Quote>>, 1), Request(<<"L", "(", "2", ")">>, 12)>>,
     <<Request(<<"A", Semicolon, Space, "B">>, 1)>>}
ExportCodes == {<<>>, <<Request(<<"E", "Q", "-", "1">>, 2)>>}
ExportRows ==
    {ExportRow(ExportItem(id, supplier), byLine, byCode) :
        id \in ExportIds, supplier \in ExportSuppliers,
        byLine \in ExportLines, byCode \in ExportCodes}

ExportFrame ==
    /\ UNCHANGED <<build, masterItems, requestLogs, error, isLoading, userMode>>
    /\ UNCHANGED <<dashVars, isUpdateSuccessModalOpen, listVars, listTables>>
    /\ UNCHANGED <<csvVars, authVars, lastMasterUpdate, qtyVars>>
    /\ UNCHANGED <<inFlightLimit, aggVars, formVars, remoteVars, envVars>>

\* the shown period gets one more aggregation row
ExportAddRow(row) ==
    /\ exportPhase = "idle"
    /\ Len(dataToDownload) < MaxExportRows
    /\ \A k \in 1..Len(dataToDownload) : dataToDownload[k].item # row.item
    /\ dataToDownload' = Append(dataToDownload, row)
    /\ UNCHANGED <<csvContent, exportPhase>>
    /\ ExportFrame

HandleDownload ==
    /\ exportPhase = "idle"
    /\ IF Len(dataToDownload) = 0
       THEN UNCHANGED <<csvContent, exportPhase>>
       ELSE /\ csvContent' = CsvContent(build, dataToDownload)
            /\ exportPhase' = "clicked"
    /\ UNCHANGED dataToDownload
    /\ ExportFrame

\* the admin moves to a period without logs
ExportClear ==
    /\ exportPhase = "clicked"
    /\ dataToDownload' = <<>>
    /\ csvContent' = <<>>
    /\ exportPhase' = "idle"
    /\ ExportFrame

ExportInit ==
    /\ AggIdle
    /\ build \in Builds
    /\ masterItems = <<>> /\ requestLogs = <<>>
    /\ error = Null /\ isLoading = FALSE /\ userMode = "admin"
    /\ cart = <<>> /\ line = "" /\ equipmentCode = "" /\ desiredDate = ""
    /\ formEvent = "none"
    /\ dbItems = {} /\ dbLogs = {} /\ ops = <<>>
    /\ clock = 0 /\ uuidCount = 0 /\ failures = 0
    /\ DashIdle /\ isUpdateSuccessModalOpen = FALSE /\ ListsIdle /\ CsvIdle
    /\ LockAtMount /\ lastMasterUpdate = NoDate
    /\ SideIdle

ExportNext ==
    \/ \E row \in ExportRows : ExportAddRow(row)
    \/ HandleDownload
    \/ ExportClear

SpecExport == ExportInit /\ [][ExportNext]_vars

(***************************************************************************)
(* Handlers suspended at the same time (App.tsx 36-86, 221-236, 322-366):  *)
(* a second handler may start while the request of the first is pending.   *)
(***************************************************************************)
MaxRacing == 2

\* two stored logs of the catalog item, the newer one first
RaceLogs ==
    <<MkLog(Uuid(2), "Press1", Null, "Z01", "Pad-NFC", 2, 10, 5, 1, Null),
      MkLog(Uuid(1), "Press1", Null, "Z01", "Pad-NFC", 1, 5, 5, 0, Null)>>

\* the supabase build after its first fetchData, with the admin signed in
RaceInit ==
    /\ AggIdle
    /\ build = "supabase"
    /\ dbItems = Table0
    /\ masterItems \in ItemsByName(dbItems)
    /\ dbLogs = Range(RaceLogs)
    /\ requestLogs = RaceLogs
    /\ error = Null /\ isLoading = FALSE /\ userMode = "admin"
    /\ FormBlank
    /\ ops = <<>>
    /\ clock = 1 /\ uuidCount = 2 /\ failures = 0
    /\ DashIdle /\ isUpdateSuccessModalOpen = FALSE /\ CsvIdle
    /\ LockAtMount /\ lastMasterUpdate = NoDate
    /\ ExportIdle /\ QtyIdle
    /\ inFlightLimit = MaxRacing
    /\ dbLines = LineTable0 /\ dbCodes = CodeTable0
    /\ lines \in NamesInOrder(dbLines)
    /\ equipmentCodes \in NamesInOrder(dbCodes)

RaceNext ==
    \/ \E logId \in LogIds : HandleDeleteLog(logId)
    \/ \E logId \in LogIds, editingQuantity \in 1..MaxQty :
          HandleSaveEdit(logId, editingQuantity)
    \/ HandleAddLine("Lathe")
    \/ \E i \in 1..Len(ops) : DbCommit(i)
    \/ \E i \in 1..Len(ops) : Continue(i)
    \/ \E i \in 1..Len(ops) : FetchItems(i)
    \/ \E i \in 1..Len(ops) : FetchLogs(i)
    \/ \E i \in 1..Len(ops) : FetchDone(i)

SpecRace == RaceInit /\ [][RaceNext]_vars

(***************************************************************************)
(* Week and month windows                                                  *)
(***************************************************************************)
Monday == 1
Sunday == 0

\* every date the model carries inside the Monday-to-Sunday week of monday
DatesOfWeek(monday) ==
    {[day |-> n, ms |-> t] : n \in monday.day .. monday.day + 6,
                             t \in TimesOfDay}

\* C11: for every reference date d, getWeekInfo(d) returns startOfWeek =
\* 00:00:00.000 of the Monday on or before d and endOfWeek = 23:59:59.999 of
\* the Sunday six days later; startOfWeek <= d <= endOfWeek; and every date
\* of the same Monday-to-Sunday week gives the same pair.
C11_WeekWindow ==
    LET info == getWeekInfo(currentWeekDate)
    IN  /\ GetDay(info.startOfWeek) = Monday
        /\ info.startOfWeek.ms = 0
        /\ info.startOfWeek.day <= currentWeekDate.day
        /\ currentWeekDate.day - info.startOfWeek.day <= 6
        /\ GetDay(info.endOfWeek) = Sunday
        /\ info.endOfWeek =
               [day |-> info.startOfWeek.day + 6, ms |-> EndOfDay]
        /\ TimeLe(GetTime(info.startOfWeek), GetTime(currentWeekDate))
        /\ TimeLe(GetTime(currentWeekDate), GetTime(info.endOfWeek))
        /\ \A e \in DatesOfWeek(info.startOfWeek) :
               /\ getWeekInfo(e).startOfWeek = info.startOfWeek
               /\ getWeekInfo(e).endOfWeek = info.endOfWeek

\* the reference date is the last millisecond of a Sunday whose Monday lies
\* in the month before
C11_Witness ==
    /\ AdminMounted
    /\ GetDay(currentWeekDate) = Sunday
    /\ currentWeekDate.ms = EndOfDay
    /\ GetMonth(getWeekInfo(currentWeekDate).startOfWeek)
           # GetMonth(currentWeekDate)
    /\ getWeekInfo(currentWeekDate).endOfWeek = currentWeekDate

\* the Monday-start weeks of monday's month from the 1st up to and including
\* the week of monday: one per Monday of the month up to monday, and one
\* more for the days before the first Monday when the month does not start
\* on a Monday
WeeksCounted(monday) ==
    LET first == monday.day - GetDate(monday) + 1
        mondays == {n \in first .. monday.day : n % 7 = Monday}
    IN  Cardinality(mondays) + (IF first % 7 = Monday THEN 0 ELSE 1)

\* C12: weekNumber is the number of Monday-start weeks of the month counted
\* from the 1st up to and including the week's Monday, a partial first week
\* counting as week 1; month is the month of the week's Monday; weekNumber
\* lies between 1 and 6.
C12_WeekNumber ==
    LET info == getWeekInfo(currentWeekDate)
    IN  /\ info.weekNumber = WeeksCounted(info.startOfWeek)
        /\ info.month = (MonthIndex(info.startOfWeek) % 12) + 1
        /\ info.weekNumber \in 1..6

\* a sixth week: the month starts on a Sunday and its fifth Monday is shown
C12_Witness ==
    /\ AdminMounted
    /\ getWeekInfo(currentWeekDate).weekNumber = 6
    /\ GetDay(StartOfMonth(getWeekInfo(currentWeekDate).startOfWeek)) = Sunday

\* C13: after any sequence of changeWeek(+1/-1) with net offset k the weekly
\* window starts exactly 7k days after the start of the mount date's week
\* (so going forward and back restores it), and the label shows the month
\* and the week number of the displayed week's Monday, also when the week
\* spans two months.
C13_WeekNavigation ==
    LET info == getWeekInfo(currentWeekDate)
        label == getWeekRangeString(currentWeekDate)
    IN  /\ info.startOfWeek =
               [day |-> getWeekInfo(mountDate).startOfWeek.day + 7 * weekOffset,
                ms  |-> 0]
        /\ weekOffset = 0 => currentWeekDate = mountDate
        /\ label.month = ToString((MonthIndex(info.startOfWeek) % 12) + 1)
        /\ label.weekNumber = ToString(WeeksCounted(info.startOfWeek))

\* two weeks back from the mount date, on a week that spans two months
C13_Witness ==
    /\ AdminMounted
    /\ weekOffset = -2
    /\ GetMonth(getWeekInfo(currentWeekDate).startOfWeek)
           # GetMonth(getWeekInfo(currentWeekDate).endOfWeek)

\* the instants of the month mi months after January of EpochYear
InMonth(t, mi) ==
    /\ TimeLe(<<MonthStarts[mi], 0>>, t)
    /\ TimeLe(t, <<MonthStarts[mi + 1] - 1, EndOfDay>>)

\* C14: after any sequence of changeMonth(+1/-1) with net offset k from a
\* mount date in month m (the 29th, 30th and 31st included) the monthly
\* window is [1st 00:00:00.000, last day 23:59:59.999] of month m + k, and
\* the monthly view holds exactly the logs stamped inside it, bounds
\* included.
C14_MonthNavigation ==
    LET target == MonthIndex(mountDate) + monthOffset
    IN  /\ StartOfMonth(currentMonthDate) =
               [day |-> MonthStarts[target], ms |-> 0]
        /\ EndOfMonth(currentMonthDate) =
               [day |-> MonthStarts[target + 1] - 1, ms |-> EndOfDay]
        /\ monthlyLogs(requestLogs, currentMonthDate) =
               SelectSeq(requestLogs,
                         LAMBDA log : InMonth(log.timestamp, target))

\* mounted on 31 January, one month forward: February, whose view holds the
\* logs stamped on its first and on its last millisecond
C14_Witness ==
    /\ AdminMounted
    /\ GetDate(mountDate) = 31 /\ GetMonth(mountDate) = 0
    /\ monthOffset = 1
    /\ {log.id : log \in Range(monthlyLogs(requestLogs, currentMonthDate))}
           = {"L2", "L3"}

(***************************************************************************)
(* Catalog keys                                                            *)
(***************************************************************************)
\* the catalog the build keeps: React state in the local build, the
\* master_items table in the supabase build
CatalogIds ==
    IF build = "local" THEN {masterItems[k].id : k \in 1..Len(masterItems)}
    ELSE Ids(dbItems)

IdTaken(id) == \E other \in CatalogIds : ToLowerCase(other) = ToLowerCase(id)

\* C15: for every non-empty catalog, adding an item whose id equals an
\* existing id up to letter case is rejected with the duplicate-key message
\* and leaves the catalog unchanged.
C15_DuplicateAddRejected ==
    \A newItem \in CatalogAdds :
        IdTaken(newItem.id) =>
            IF build = "local"
            THEN /\ AddItemReturn(masterItems, newItem) = "duplicate"
                 /\ AddedItems(masterItems, newItem) = masterItems
            ELSE AddItemMessage(Refusal(AddItemOp(newItem))) = "duplicate"

\* the same statement for the local build alone
C15_LocalAddRejected == build = "local" => C15_DuplicateAddRejected

\* the local catalog holds Z01 and the add of z01 is answered "duplicate"
C15_LocalWitness ==
    /\ build = "local"
    /\ AdminMounted
    /\ "Z01" \in CatalogIds
    /\ AddItemReturn(masterItems, MkItem("z01", "Pad-NFC", 5)) = "duplicate"

UniqueIds(ids) ==
    \A k, m \in 1..Len(ids) :
        k # m => ToLowerCase(ids[k]) # ToLowerCase(ids[m])

\* C16: in every state reachable by CSV imports and manual adds no two
\* catalog items have the same id, compared case-insensitively, also after
\* importing a file that holds the same id on two rows.
C16_UniqueIds ==
    /\ UniqueIds([k \in 1..Len(masterItems) |-> masterItems[k].id])
    /\ \A a, b \in dbItems :
           a # b => ToLowerCase(a.id) # ToLowerCase(b.id)

\* the same statement for the table of the supabase build and exact ids
C16_TableKeysDiffer == \A a, b \in dbItems : a # b => a.id # b.id

(***************************************************************************)
(* Failed imports                                                          *)
(***************************************************************************)
CatalogKept == UNCHANGED <<masterItems, dbItems>>

\* C20: a CSV import ends with an error message when the text is empty and
\* when no row is accepted; in both cases, and when the write to the store
\* fails, the catalog is exactly what it was and the success dialog is not
\* opened.
C20_FailedImportKeepsCatalog ==
    [][\A i \in 1..Len(ops) :
          /\ (Onload(i) /\ (ops[i].empty \/ Len(ops[i].items) = 0)) =>
                 /\ error' # Null
                 /\ CatalogKept
                 /\ UNCHANGED isUpdateSuccessModalOpen
          /\ (DbCommit(i) /\ ops[i].kind = "import"
                          /\ ops'[i].result # "ok") =>
                 CatalogKept
          /\ (Continue(i) /\ ops[i].kind = "import"
                          /\ ops[i].result # "ok") =>
                 /\ error' # Null
                 /\ CatalogKept
                 /\ UNCHANGED isUpdateSuccessModalOpen
      ]_vars

\* the upsert of an import has just failed: the handler is about to resume
\* over a loaded catalog
C20_Witness ==
    /\ build = "supabase"
    /\ masterItems # <<>>
    /\ \E i \in 1..Len(ops) :
           /\ ops[i].kind = "import"
           /\ ops[i].stage = "wrote"
           /\ ops[i].result = "error"
    /\ ~isUpdateSuccessModalOpen

\* an import without a valid row has just ended, in the local build
C20_WitnessNoRows ==
    /\ build = "local"
    /\ masterItems # <<>>
    /\ error = "import"
    /\ ~isUpdateSuccessModalOpen

(***************************************************************************)
(* Reference lists                                                         *)
(***************************************************************************)
NoTwoAlike(names) ==
    \A a, b \in names : a # b => ToLowerCase(a) # ToLowerCase(b)

AlikeListed(names, name) ==
    \E other \in names : ToLowerCase(other) = ToLowerCase(name)

\* the line list and the code list the build keeps: React state in the
\* local build, the tables in the supabase build
KeptLines == IF build = "local" THEN Range(lines) ELSE dbLines
KeptCodes == IF build = "local" THEN Range(equipmentCodes) ELSE dbCodes

\* C17: for the line list and for the equipment-code list: no two entries
\* are equal up to letter case after any adds and deletes; an add that
\* matches an existing entry case-insensitively returns the duplicate
\* rejection and leaves the list unchanged; a delete removes exactly the
\* named entry.
C17_ReferenceLists ==
    /\ NoTwoAlike(Range(lines)) /\ NoTwoAlike(dbLines)
    /\ NoTwoAlike(Range(equipmentCodes)) /\ NoTwoAlike(dbCodes)
    /\ \A newLine \in LinePool :
          AlikeListed(KeptLines, newLine) =>
              IF build = "local"
              THEN /\ AddLineReturn(lines, newLine) = "duplicate"
                   /\ AddedLines(lines, newLine) = lines
              ELSE AddNameMessage(Refusal(ListOp("addLine", newLine)))
                       = "duplicate"
    /\ \A newCode \in CodePool :
          (build = "supabase" /\ AlikeListed(KeptCodes, newCode)) =>
              AddNameMessage(Refusal(ListOp("addCode", newCode)))
                  = "duplicate"
    /\ \A lineToDelete \in LinePool :
          /\ Range(RemovedLines(lines, lineToDelete))
                 = Range(lines) \ {lineToDelete}
          /\ DeletedRows(dbLines, lineToDelete) = dbLines \ {lineToDelete}
    /\ \A codeToDelete \in CodePool :
          DeletedRows(dbCodes, codeToDelete) = dbCodes \ {codeToDelete}

\* the same statement for the local build alone
C17_LocalLines == build = "local" => C17_ReferenceLists

\* the local build after an add and a delete: Lathe is listed, Press1 is
\* gone, and adding "press1" again would be accepted, "Lathe" refused
C17_LocalWitness ==
    /\ build = "local"
    /\ lines = <<"Lathe">>
    /\ AddLineReturn(lines, "Lathe") = "duplicate"

(***************************************************************************)
(* CSV rows                                                                *)
(***************************************************************************)
\* what a field says: an unquoted field without its surrounding white
\* space, a quoted field without its enclosing quotes
FieldText(f) == IF f.quoted THEN f.value ELSE Trim(f.value)

\* the number the price field is read as
PriceOf(fields) == ParseFloat(RemoveCommas(FieldText(fields[6])))

\* at least 6 columns, an id and a name, and a price of the given kinds
Acceptable(fields, kinds) ==
    /\ Len(fields) >= 6
    /\ FieldText(fields[1]) # <<>>
    /\ FieldText(fields[3]) # <<>>
    /\ PriceOf(fields).kind \in kinds

AcceptedRows == {r \in 1..Len(csvFile) : csvTrace[r].items # <<>>}

\* the file without the rows that were skipped
RECURSIVE AcceptedOnly(_, _)
AcceptedOnly(file, accepted) ==
    IF file = <<>> THEN <<>>
    ELSE AcceptedOnly(SubSeq(file, 1, Len(file) - 1), accepted)
         \o (IF Len(file) \in accepted THEN <<file[Len(file)]>> ELSE <<>>)

\* the items are those of the accepted rows, one each, in the order of the
\* file, and are what the file without the skipped rows gives
SkippedRowsLeaveNoTrace ==
    /\ Len(parsedItems) = Cardinality(AcceptedRows)
    /\ parsedItems = ParsedItems(RowTexts(AcceptedOnly(csvFile, AcceptedRows)))

\* C18: a CSV row is accepted only if it has at least 6 columns, its id and
\* name are non-empty after trimming and quote stripping, and its price, with
\* the thousands commas removed, parses to a finite number; every other row
\* is skipped without affecting the accepted rows.
C18_RowAccepted ==
    csvPhase = "parsed" =>
        /\ \A r \in AcceptedRows : Acceptable(csvFile[r], {"finite"})
        /\ SkippedRowsLeaveNoTrace

\* what the parser does: a row is accepted exactly when it has at least 6
\* columns, an id, a name and a price that is not NaN
C18_AcceptedUnlessNaN ==
    csvPhase = "parsed" =>
        /\ \A r \in 1..Len(csvFile) :
              r \in AcceptedRows
                  <=> Acceptable(csvFile[r], {"finite", "Infinity"})
        /\ SkippedRowsLeaveNoTrace

\* a row with the price Infinity was accepted between rows that were skipped
C18_InfinityAccepted ==
    /\ csvPhase = "parsed"
    /\ \E r \in AcceptedRows : PriceOf(csvFile[r]) = Infinite
    /\ \E r \in 1..Len(csvFile) : r \notin AcceptedRows

\* a row that reaches the splitter
Splits(r) == Trim(WriteRow(csvFile[r])) # <<>>

\* a written field without its enclosing quotes and with doubled quotes
\* unescaped
Unwrapped(f) == IF f.quoted THEN f.value ELSE UnescapeQuotes(f.value)

\* C19 as stated: for every row whose fields are comma-free or wrapped in
\* double quotes with inner quotes doubled, there are as many columns as
\* fields, and each column is the field's value with the enclosing quotes
\* removed and doubled quotes unescaped.
C19_FieldsKeptAsWritten ==
    csvPhase = "parsed" =>
        \A r \in 1..Len(csvFile) :
            Splits(r) =>
                /\ Len(csvTrace[r].columns) = Len(csvFile[r])
                /\ \A k \in 1..Len(csvFile[r]) :
                      csvTrace[r].columns[k] = Unwrapped(csvFile[r][k])

QuoteFree(f) == \A i \in 1..Len(f.value) : f.value[i] # Quote

\* C19: for every row whose fields are either unquoted, without a comma and
\* without a double quote, or wrapped in double quotes with inner quotes
\* doubled, there are as many columns as fields; the column of a quoted field
\* is its content, commas, quotes and white space included, and the column
\* of an unquoted field is the field without its surrounding white space.
C19_QuotedFieldsKept ==
    csvPhase = "parsed" =>
        \A r \in 1..Len(csvFile) :
            (/\ Splits(r)
             /\ \A k \in 1..Len(csvFile[r]) :
                   csvFile[r][k].quoted \/ QuoteFree(csvFile[r][k]))
            => /\ Len(csvTrace[r].columns) = Len(csvFile[r])
               /\ \A k \in 1..Len(csvFile[r]) :
                     csvTrace[r].columns[k] = FieldText(csvFile[r][k])

\* a row of three fields, a quoted one with a comma and a quote inside
\* between two unquoted ones, was split into its three fields
C19_Witness ==
    /\ csvPhase = "parsed"
    /\ Len(csvFile) = 1
    /\ csvFile[1] = << Plain(<<Space, "a">>), Quoted(<<Quote, Comma>>),
                       Plain(<<"a">>) >>
    /\ csvTrace[1].columns = << <<"a">>, <<Quote, Comma>>, <<"a">> >>

(***************************************************************************)
(* Successful imports                                                      *)
(***************************************************************************)
\* the step in which import i ends by opening the success dialog
ImportSucceeds(i) ==
    /\ ops[i].kind = "import"
    /\ ops' = RemoveAt(ops, i)
    /\ ~isUpdateSuccessModalOpen
    /\ isUpdateSuccessModalOpen'

\* the catalog holds every row the parser accepted from the file
HoldsFile(items, file) == \A k \in 1..Len(file) : file[k] \in Range(items)

ImportRecorded ==
    \A i \in 1..Len(ops) :
        ImportSucceeds(i) =>
            /\ HoldsFile(masterItems', ops[i].file)
            /\ lastMasterUpdate' # NoDate

\* C21: after a successful CSV import the catalog contains every accepted
\* row of the file with the file's values, and a last-updated timestamp is
\* recorded (lastMasterUpdate is not null).
C21_ImportRecorded == [][ImportRecorded]_vars

\* the same in the local-state build alone
C21_LocalImportRecorded == [][build = "local" => ImportRecorded]_vars

\* a successful import of the local-state build has replaced a catalog
C21_LocalWitness ==
    /\ build = "local"
    /\ isUpdateSuccessModalOpen
    /\ masterItems = Catalog0
    /\ lastMasterUpdate # NoDate

(***************************************************************************)
(* The admin lock                                                          *)
(***************************************************************************)
\* what one step of the lock may do to the mode and the flag
LockStep ==
    /\ (~isAdminAuthenticated /\ isAdminAuthenticated') =>
           authEvent' = AuthEvent("submit", adminPassword, TRUE)
    /\ (authEvent'.handler = "submit" /\ authEvent'.given # adminPassword) =>
           UNCHANGED <<userMode, isAdminAuthenticated>>
    /\ (userMode = "general" /\ userMode' = "admin") =>
           authEvent' = AuthEvent("submit", adminPassword, TRUE)
    /\ userMode' = "general" => ~isAdminAuthenticated'

\* C22: the admin screens are shown only to an authenticated session; the
\* session becomes authenticated only by submitting the stored password; a
\* wrong password changes neither the mode nor the flag; after a switch to
\* general mode admin mode is entered again only by a new correct
\* submission.
C22_AdminLock ==
    /\ [](userMode = "admin" => isAdminAuthenticated)
    /\ [][LockStep]_vars

\* the stored password was submitted to the modal and opened admin mode
C22_Witness ==
    /\ userMode = "admin"
    /\ isAdminAuthenticated
    /\ ~isPasswordModalOpen
    /\ authEvent = AuthEvent("submit", adminPassword, TRUE)

\* what one call of the change form may do
ChangeStep ==
    /\ (authEvent'.handler = "change" /\ authEvent'.given # adminPassword) =>
           /\ ~authEvent'.accepted
           /\ UNCHANGED <<adminPassword, storedPassword>>
    /\ authEvent'.handler = "change" =>
           UNCHANGED <<userMode, isAdminAuthenticated>>
    /\ (authEvent'.handler = "submit" /\ authEvent'.accepted) <=>
           (authEvent'.handler = "submit" /\ authEvent'.given = adminPassword)

EndsFailed(i) == ops[i].result = "error" /\ ops' = RemoveAt(ops, i)

KeepsMemory == UNCHANGED <<masterItems, requestLogs, lines, equipmentCodes>>

FailureReported ==
    \A i \in 1..Len(ops) : EndsFailed(i) => (KeepsMemory /\ error' # Null)

\* C23: when a remote operation fails (initial fetch, submit, log delete,
\* quantity update, line or code add and delete, CSV upsert, or the refetch
\* after a write) the in-memory catalog, logs and reference lists keep their
\* values, and once the operation has completed the error state is not null.
C23_FailureReported == [][FailureReported]_vars

\* the same for every handler that reports through setError: all but the
\* add handlers, which return their message to the form, and the import
AddKinds == {"addItem", "addLine", "addCode"}
C23_SetErrorHandlers ==
    [][\A i \in 1..Len(ops) :
          (EndsFailed(i) /\ ops[i].kind \notin AddKinds \cup {"import"}) =>
              (KeepsMemory /\ error' # Null)]_vars

\* a failed handler leaves memory as it was, whatever it reports
C23_FailureKeepsMemory ==
    [][\A i \in 1..Len(ops) : EndsFailed(i) => KeepsMemory]_vars

\* an import whose refetch failed has ended with the success dialog
C23_HiddenFailure ==
    /\ build = "supabase"
    /\ ops = <<>>
    /\ failures > 0
    /\ isUpdateSuccessModalOpen
    /\ error = Null
    /\ Range(masterItems) # dbItems

(***************************************************************************)
(* Log ids                                                                 *)
(***************************************************************************)
DistinctIds(logs) ==
    \A i, j \in 1..Len(logs) : i # j => logs[i].id # logs[j].id

\* C24: in every reachable state all logs of the log store have pairwise
\* distinct ids, also the logs of two batches submitted at the same clock
\* value with the same item at the same cart position.
C24_DistinctIds == DistinctIds(requestLogs)

\* the same for ids drawn with crypto.randomUUID()
C24_UuidDistinctIds ==
    build = "supabase" =>
        /\ DistinctIds(requestLogs)
        /\ \A l1, l2 \in dbLogs : l1.id = l2.id => l1 = l2

\* two logs with ids drawn with crypto.randomUUID()
C24_UuidWitness == build = "supabase" /\ Len(requestLogs) = 2

(***************************************************************************)
(* Quantities                                                              *)
(***************************************************************************)
\* C25: every log of the log store has an integer quantity > 0 in every
\* reachable state: cart quantity changes are clamped to at least 1 before
\* submission, and a quantity edit with a new quantity <= 0 changes nothing.
C25_PositiveQuantities ==
    /\ \A k \in 1..Len(logQuantity) :
           logQuantity[k].kind = "finite" /\ logQuantity[k].value > 0
    /\ cartQuantity.kind = "finite" /\ cartQuantity.value >= 1

\* the clamp on texts that parseInt reads as a number, and on the buttons
C25_ParsedTextsClamped ==
    /\ \A text \in QuantityTexts :
           ParseInt(text).kind = "finite" =>
               (CartTyped(text).kind = "finite" /\ CartTyped(text).value >= 1)
    /\ \A n \in 1..MaxQty, d \in {-1, 1} :
           UpdatedQuantity(Plus(Finite(n), d)).value >= 1

\* an edit never stores a quantity that is not an integer > 0, and an edit
\* to a quantity <= 0 leaves the logs as they are
C25_EditKeepsPositive ==
    [][(qtyPhase.editingLogId # 0 /\ logQuantity' # logQuantity) =>
          /\ Positive(editingQty) /\ editingQty.kind = "finite"
          /\ logQuantity' =
                [logQuantity EXCEPT ![qtyPhase.editingLogId] = editingQty]]_vars

\* a log of the local-state build whose quantity is NaN
C25_NaNStored ==
    /\ build = "local"
    /\ Len(logQuantity) > 0
    /\ logQuantity[1] = NaN

(***************************************************************************)
(* Export                                                                  *)
(***************************************************************************)
NeedsQuotes(x) == \E i \in 1..Len(x) : x[i] \in {Quote, Comma}

\* a field written for a value: wrapped with its quotes doubled when the
\* value holds a quote or a comma
WrittenQuoted(value, field) ==
    IF NeedsQuotes(value) THEN field = Wrapped(value)
    ELSE field \in {value, Wrapped(value)}

\* the values of the columns of one row
RowValues(b, row) ==
    <<row.item.id, row.item.supplier, row.item.name, row.item.specification,
      row.item.unit, NumberText(row.item.price), row.desired_delivery_date,
      NumberText(row.totalQuantity), NumberText(row.totalCost),
      BreakdownText(row.requestsByLine)>>
    \o (IF b = "supabase"
        THEN <<BreakdownText(row.requestsByEquipment)>> ELSE <<>>)

ColumnsQuoted(columns) ==
    \A k \in 1..Len(dataToDownload) :
        \A c \in columns \cap (1..Len(Headers(build))) :
            WrittenQuoted(RowValues(build, dataToDownload[k])[c],
                          RowFields(build, dataToDownload[k])[c])

EmptyExportEmitsNothing ==
    /\ Downloaded(build, <<>>) = <<>>
    /\ dataToDownload = <<>> => (csvContent = <<>> /\ exportPhase = "idle")

\* C26: in the exported CSV every field that holds a double quote or a
\* comma is wrapped in double quotes with its inner quotes doubled, in every
\* column; so each data line splits by the quote-aware comma rule into as
\* many fields as the header line; an empty row list emits nothing.
C26_ExportQuoted ==
    /\ exportPhase = "clicked" =>
          /\ ColumnsQuoted(1..11)
          /\ LET written == TextLines(csvContent)
             IN  \A k \in 2..Len(written) :
                     Len(Split(written[k])) = Len(Split(written[1]))
    /\ EmptyExportEmitsNothing

\* the same for the four columns written with replace(/"/g, '""'), and for
\* the empty row list
C26_TextColumnsQuoted ==
    /\ exportPhase = "clicked" => ColumnsQuoted(2..5)
    /\ EmptyExportEmitsNothing

\* a file was written whose supplier holds a comma and a quote
C26_TextColumnsWitness ==
    /\ exportPhase = "clicked"
    /\ \E k \in 1..Len(dataToDownload) :
           NeedsQuotes(dataToDownload[k].item.supplier)

\* split('; ')
RECURSIVE SplitParts(_)
SplitParts(text) ==
    LET at == {i \in 1..(Len(text) - 1) :
                  text[i] = Semicolon /\ text[i + 1] = Space}
    IN  IF at = {} THEN <<text>>
        ELSE LET i == CHOOSE i \in at : \A j \in at : i <= j
             IN  <<SubSeq(text, 1, i - 1)>>
                 \o SplitParts(SubSeq(text, i + 2, Len(text)))

\* a part read as label(quantity): the digits between the last "(" and the
\* closing ")" are the quantity, the text before them the label
ReadPart(part) ==
    LET opens == {i \in 1..Len(part) : part[i] = "("}
        open == CHOOSE i \in opens : \A j \in opens : i >= j
        digits == SubSeq(part, open + 1, Len(part) - 1)
    IN  IF /\ opens # {}
           /\ part # <<>> /\ part[Len(part)] = ")"
           /\ digits # <<>>
           /\ \A i \in 1..Len(digits) : IsDigit(digits[i])
        THEN [read |-> TRUE,
              pair |-> Request(SubSeq(part, 1, open - 1), Decimal(digits))]
        ELSE [read |-> FALSE, pair |-> Request(<<>>, 0)]

\* the pairs read back from a breakdown field, after its two wrapping
\* quotes are taken off
ReadBreakdown(field) ==
    LET parts == SplitParts(SubSeq(field, 2, Len(field) - 1))
    IN  [read |-> \A k \in 1..Len(parts) : ReadPart(parts[k]).read,
         pairs |-> {ReadPart(parts[k]).pair : k \in 1..Len(parts)}]

RoundTrip(requests) ==
    LET back == ReadBreakdown(BreakdownField(requests))
    IN  back.read /\ back.pairs = Range(requests)

\* C27: for every aggregation row, splitting the exported per-line
\* breakdown field on '; ' and reading each part as label(quantity) gives
\* back exactly the row's (line, quantity) pairs, for every line name the
\* reference list accepts.
C27_BreakdownRoundTrip ==
    exportPhase = "clicked" =>
        \A k \in 1..Len(dataToDownload) :
            RoundTrip(dataToDownload[k].requestsByLine)

\* the same for line names that do not hold the separator '; '
HoldsSeparator(label) ==
    \E i \in 1..(Len(label) - 1) :
        label[i] = Semicolon /\ label[i + 1] = Space
C27_SeparatorFreeRoundTrip ==
    exportPhase = "clicked" =>
        \A k \in 1..Len(dataToDownload) :
            LET requests == dataToDownload[k].requestsByLine
            IN  (\A r \in 1..Len(requests) :
                     ~HoldsSeparator(requests[r].label))
                    => RoundTrip(requests)

\* a written row with two lines, one of them named with a quote and one
\* with brackets
C27_SeparatorFreeWitness ==
    /\ exportPhase = "clicked"
    /\ \E k \in 1..Len(dataToDownload) :
           /\ Len(dataToDownload[k].requestsByLine) = 2
           /\ RoundTrip(dataToDownload[k].requestsByLine)

(***************************************************************************)
(* Interleaved handlers                                                    *)
(***************************************************************************)
\* memory lists exactly the rows of the request log table
LogsInSync ==
    /\ Range(requestLogs) = dbLogs
    /\ Len(requestLogs) = Cardinality(dbLogs)

\* no handler is suspended and no request has failed
QuietAndSound == ops = <<>> /\ failures = 0

\* C28: under every interleaving of the asynchronous handlers, once no
\* operation is in flight and none has failed, the in-memory log list holds
\* exactly the logs of the remote store with the same quantity and total
\* cost: a deleted log never reappears and a committed quantity update is
\* not overwritten by an older fetch result.
C28_MemoryMatchesStore == QuietAndSound => LogsInSync

\* the same when every handler runs to its end before the next one starts
C28_OneAtATime ==
    (build = "supabase" /\ inFlightLimit = 1 /\ QuietAndSound) => LogsInSync

\* a log deleted from the table is listed in memory while nothing is pending
C28_DeletedLogListed ==
    /\ QuietAndSound
    /\ \E k \in 1..Len(requestLogs) :
           \A l \in dbLogs : l.id # requestLogs[k].id

(***************************************************************************)
(* renderContent (App.tsx 406-436, part_005 249-251)                       *)
(***************************************************************************)
\* const fileUploadError = error
FileUploadError == error

\* const generalError = error && !fileUploadError ? error : null
GeneralError ==
    IF error # Null /\ ~(FileUploadError # Null) THEN error ELSE Null

\* what renderContent returns; the local-state build has neither the
\* spinner nor the error panel
RenderContent ==
    IF build = "local" THEN userMode
    ELSE IF isLoading THEN "spinner"
    ELSE IF GeneralError # Null THEN "errorPanel"
    ELSE userMode

\* C29: whenever loading has finished and the error state is not null
\* because a fetch, a submit or a delete failed, renderContent shows the
\* general error panel with its retry button instead of the general-mode or
\* admin-mode view; retry clears the error and starts fetchData again.
C29_ErrorPanelShown ==
    (build = "supabase" /\ ~isLoading
        /\ error \in {"fetch", "submit", "deleteLog"})
        => RenderContent = "errorPanel"

\* renderContent never returns the error panel, so its retry button is
\* never offered
C29_PanelNeverShown == RenderContent # "errorPanel"

\* the admin view is shown over the error of a failed fetch
C29_ErrorUnderView ==
    /\ build = "supabase"
    /\ ~isLoading
    /\ error = "fetch"
    /\ RenderContent = "admin"

====
